---- MODULE Spec2Model ----
(***************************************************************************)
(* MVP-Echo speech-to-text engine clients.                                 *)
(*                                                                         *)
(* Spec     : the Python-sidecar WhisperEngine (src/unnamed/part_002): one *)
(*            engine object, a bounded number of overlapping API calls     *)
(*            (initialize / transcribe / cleanup), the child processes it  *)
(*            spawns, their stdout 'data' listeners, the 30 s request      *)
(*            timers and the Node event loop that interleaves them.        *)
(*                                                                         *)
(* SpecOnnx : the ONNX-Runtime WhisperEngine (src/app/stt/whisper-engine.js)*)
(*            behind the processAudio IPC handler and the before-quit hook *)
(*            of src/app/main/main-simple.js.                              *)
(*                                                                         *)
(* Node runs one callback at a time: every action below is one macrotask   *)
(* (an API call up to its first pending await, a stream/process event, a   *)
(* timer) together with the promise continuations it makes runnable.       *)
(***************************************************************************)
EXTENDS Integers, Sequences, FiniteSets, TLC

\* ---------------------------------------------------------------- bounds
MaxCalls == 3
MaxProcs == 2
MaxSessions == 2

Calls == 1..MaxCalls
Procs == 1..MaxProcs
Sessions == 1..MaxSessions

\* "this.pythonProcess = null"
NULL == 0

\* const pythonCommands = ['python', 'python3', 'py']
pythonCommands == <<"python", "python3", "py">>

VARIABLES
    pythonProcess,  \* this.pythonProcess: NULL or the id of a child process
    isInitialized,  \* this.isInitialized
    call,           \* call[c]: the c-th API invocation on the engine
    proc,           \* proc[p]: the p-th child process spawned by the engine
    timers,         \* armed 30 s request timers, in the order they were set
    uncaught,       \* an exception escaped an event-loop callback
    session,        \* ONNX engine: this.session, NULL or a session id
    sess,           \* ONNX engine: sess[s], the state of the s-th session
    modelPath,      \* ONNX engine: this.modelPath
    remote,         \* remote engine: its configuration fields
    disk,           \* remote engine: <<config>> stored in endpoint-config.json,
                    \* <<>> while there is no such file
    arg,            \* the argument of the function under check
    ret,            \* <<v>> once the function returned v for it, <<>> before
    isRecording,    \* main process: let isRecording (main-simple.js 83)
    renderer,       \* renderer: the App state and its AudioCapture
    ipc             \* invocations sent to the main process, oldest first

pyVars == <<pythonProcess, proc, timers, uncaught>>
onnxVars == <<session, sess, modelPath>>
remoteVars == <<remote, disk>>
pureVars == <<arg, ret>>
recVars == <<isRecording, renderer, ipc>>
vars == <<pythonProcess, isInitialized, call, proc, timers, uncaught,
          session, sess, modelPath, remote, disk, arg, ret,
          isRecording, renderer, ipc>>

\* ------------------------------------------------------------ data shapes
\* op   : which API method the invocation is
\* pc   : where the invocation is suspended, or how it settled
\* err  : the error it rejected with
\* resp : the request whose backend output resolved its sendRequest (0: none)
\* sent : the process whose stdin its request was written to (0: none)
\* wait : the process whose 'close' event, or the session whose release, a
\*        cleanup is waiting for (0: none)
\* got  : how its sendRequest promise settled ("none" while it has not)
\* audio: the audio argument of processAudio / transcribe (ONNX engine)
\* model: what ensureModelExists found for this initialize (ONNX engine)
\* made : the session its initialize created (ONNX engine; 0: none)
\* text : the text field of the result object it resolved with
NoCall ==
    [op |-> "none", pc |-> "idle", err |-> "none", got |-> "none", resp |-> 0,
     sent |-> 0, wait |-> 0, audio |-> "none", model |-> "none", made |-> 0,
     text |-> "none"]

\* status : "unspawned" | "running" | "exited" (no OS process, 'close' not yet
\*          emitted) | "closed" ('close' emitted)
\* killed : ChildProcess.killed, true once kill() delivered a signal
\* inbox  : request lines written to stdin and not yet answered
\* listeners : stdout.once('data', onData) registrations, oldest first
NoProc ==
    [status |-> "unspawned", killed |-> FALSE, inbox |-> <<>>,
     listeners |-> <<>>]

Settled(c) == call[c].pc \in {"resolved", "rejected"}

\* sequence s without the element x
Without(s, x) == SelectSeq(s, LAMBDA y : y # x)

InSeq(s, x) == \E i \in 1..Len(s) : s[i] = x

\* calls are numbered in the order they are made
NextCall(c) ==
    /\ call[c].op = "none"
    /\ \A d \in Calls : d < c => call[d].op # "none"

\* whisper-remote.js 13-17: the fields the constructor sets
RemoteDefaults ==
    [endpointUrl |-> "null", apiKey |-> "null", selectedModel |-> "base",
     language |-> "null", isConfigured |-> FALSE]

\* main-simple.js 328-337 and 487-499: the renderer when App has mounted.
\* isRecording is the React state and isRecordingRef, which an effect keeps
\* equal to it (489-492); stream and mediaRecorder are the AudioCapture's
\* fields; openStreams counts the getUserMedia streams of the page whose
\* tracks were not stopped.
Mounted ==
    [isRecording |-> FALSE, stream |-> FALSE, mediaRecorder |-> "undefined",
     openStreams |-> 0]

\* the local engines as constructed (part_002 13-20, whisper-engine.js 17-23),
\* the main process's recording flag and the renderer as started
IdleLocal ==
    /\ pythonProcess = NULL
    /\ isInitialized = FALSE
    /\ proc = [p \in Procs |-> NoProc]
    /\ timers = <<>>
    /\ uncaught = FALSE
    /\ session = NULL
    /\ sess = [x \in Sessions |-> "none"]
    /\ modelPath = "null"
    /\ isRecording = FALSE
    /\ renderer = Mounted
    /\ ipc = <<>>

\* the engines and the functions that a specification does not exercise
Idle ==
    /\ IdleLocal
    /\ remote = RemoteDefaults
    /\ disk = <<>>

Init ==
    /\ Idle
    /\ call = [c \in Calls |-> NoCall]
    /\ arg = "none"
    /\ ret = <<>>

\* ------------------------------------------------- sendRequest (125-156)
\* What the backend can write for one request line: a JSON object that reports
\* no error, a JSON object that reports one, or bytes that JSON.parse rejects.
Outputs == {"ok", "error", "garbage"}

\* line 126: if (!this.pythonProcess) throw new Error('Python service not running')
sendRequestThrows == pythonProcess = NULL

\* lines 130-155 for the invocation c, whose record becomes rec: register the
\* once('data') listener on the current process's stdout, write the request
\* line to its stdin, arm the 30 s timer.  A write to the pipe of a process
\* that is already gone is lost and raises EPIPE on stdin, which has no
\* 'error' listener.
sendRequest(c, rec) ==
    LET p == pythonProcess
        up == proc[p].status = "running"
    IN  /\ proc' = [proc EXCEPT ![p].listeners = Append(@, c),
                                ![p].inbox = IF up THEN Append(@, c) ELSE @]
        /\ timers' = Append(timers, c)
        /\ uncaught' = (uncaught \/ ~up)
        /\ call' = [call EXCEPT ![c] = [rec EXCEPT !.pc = "awaitResponse",
                                                   !.sent = p]]

\* ----------------------------------------------------- initialize (25-51)
\* line 36: testResult.pong is set only in the backend's answer to a ping
HasPong(kind, r) == kind = "ok" /\ call[r].op = "initialize"

\* initializeAfterPing of an engine that a failed start has left dead: no ping
\* is accepted any more
initializeAfterPingDead(rec, kind, r) ==
    [rec EXCEPT !.pc = "rejected", !.got = kind, !.err = "PingFailed"]

\* lines 35-50: the continuation of `await this.sendRequest({action:'ping'})`
\* once the promise settled as `kind` ("timeout" for the timer's reject) with
\* the backend output produced for request r
initializeAfterPing(rec, kind, r) ==
    IF HasPong(kind, r)
    THEN [rec EXCEPT !.pc = "resolved", !.got = kind, !.resp = r]
    ELSE [rec EXCEPT !.pc = "rejected", !.got = kind,
                     !.err = CASE kind = "garbage" -> "InvalidJSON"
                               [] kind = "timeout" -> "Timeout"
                               [] OTHER            -> "PingFailed"]

\* lines 25-32 and 56-59: initialize() up to its first pending await.  With a
\* process handle present startPythonService returns at once and the ping is
\* sent; otherwise the version probe of the first candidate command starts.
Initialize(c) ==
    /\ NextCall(c)
    /\ IF pythonProcess # NULL
       THEN /\ sendRequest(c, [NoCall EXCEPT !.op = "initialize"])
            /\ UNCHANGED <<pythonProcess, isInitialized>>
       ELSE /\ call' = [call EXCEPT ![c] = [NoCall EXCEPT !.op = "initialize",
                                                          !.pc = "probing"]]
            /\ UNCHANGED <<pythonProcess, isInitialized, proc, timers, uncaught>>
    /\ UNCHANGED <<onnxVars, recVars, remoteVars, pureVars>>

\* lines 69-85: the candidates are probed in order and the first whose
\* `--version` run exits with code 0 is taken; 0 when there is none.  `avail`
\* is the set of candidate indices whose probe would succeed.
FirstUsable(avail) ==
    IF avail = {} THEN 0
    ELSE CHOOSE i \in avail : \A j \in avail : i <= j

\* lines 65-89: the probe loop found no usable command; startPythonService
\* throws and the catch of initialize (46-49) runs.  The loop touches no engine
\* state, so its awaits are taken as one step.
ProbeFails(c, avail) ==
    /\ call[c].pc = "probing"
    /\ FirstUsable(avail) = 0
    /\ call' = [call EXCEPT ![c].pc = "rejected", ![c].err = "PythonNotFound"]
    /\ isInitialized' = FALSE
    /\ UNCHANGED <<pythonProcess, proc, timers, uncaught>>
    /\ UNCHANGED <<onnxVars, recVars, remoteVars, pureVars>>

\* lines 80-81 and 93-115: a candidate passed the probe; spawn the service and
\* start the one-second grace wait.  When the spawn itself fails, Node emits
\* 'error' on the next tick, before any other callback runs: the handler of
\* lines 99-102 clears the handle at once, and 'close' follows later.
ProbeSucceeds(c, p, avail, started) ==
    /\ call[c].pc = "probing"
    /\ FirstUsable(avail) # 0
    /\ proc[p].status = "unspawned"
    /\ \A q \in Procs : q < p => proc[q].status # "unspawned"
    /\ pythonProcess' = IF started THEN p ELSE NULL
    /\ proc' = [proc EXCEPT ![p].status = IF started THEN "running" ELSE "exited"]
    /\ call' = [call EXCEPT ![c].pc = "grace"]
    /\ UNCHANGED <<isInitialized, timers, uncaught>>
    /\ UNCHANGED <<onnxVars, recVars, remoteVars, pureVars>>

\* lines 115-119, then 35: the grace second is over
GraceElapsed(c) ==
    /\ call[c].pc = "grace"
    /\ IF pythonProcess = NULL
       THEN /\ call' = [call EXCEPT ![c].pc = "rejected",
                                    ![c].err = "StartFailed"]
            /\ isInitialized' = FALSE
            /\ UNCHANGED <<pythonProcess, proc, timers, uncaught>>
       ELSE /\ sendRequest(c, call[c])
            /\ UNCHANGED <<pythonProcess, isInitialized>>
    /\ UNCHANGED <<onnxVars, recVars, remoteVars, pureVars>>

\* ---------------------------------------------------- transcribe (356-411)
\* line 357: if (!this.isInitialized) throw ...
transcribeThrowsNotInitialized == ~isInitialized

\* transcribeAfterResponse with a catch block that returns a fallback result
\* instead of rethrowing
transcribeAfterResponseFallback(rec, kind, r) ==
    IF kind = "ok"
    THEN [rec EXCEPT !.pc = "resolved", !.got = kind, !.resp = r]
    ELSE [rec EXCEPT !.pc = "resolved", !.got = kind, !.text = "filler",
                     !.err = CASE kind = "garbage" -> "InvalidJSON"
                               [] kind = "timeout" -> "Timeout"
                               [] OTHER            -> "PythonWhisperError"]

\* lines 379-410: the continuation of `await this.sendRequest(request)`
transcribeAfterResponse(rec, kind, r) ==
    IF kind = "ok"
    THEN [rec EXCEPT !.pc = "resolved", !.got = kind, !.resp = r]
    ELSE [rec EXCEPT !.pc = "rejected", !.got = kind,
                     !.err = CASE kind = "garbage" -> "InvalidJSON"
                               [] kind = "timeout" -> "Timeout"
                               [] OTHER            -> "PythonWhisperError"]

Transcribe(c) ==
    /\ NextCall(c)
    /\ IF transcribeThrowsNotInitialized
       THEN /\ call' = [call EXCEPT ![c] = [NoCall EXCEPT !.op = "transcribe",
                                                          !.pc = "rejected",
                                                          !.err = "NotInitialized"]]
            /\ UNCHANGED <<proc, timers, uncaught>>
       ELSE IF sendRequestThrows
       THEN /\ call' = [call EXCEPT ![c] = [NoCall EXCEPT !.op = "transcribe",
                                                          !.pc = "rejected",
                                                          !.err = "NotRunning"]]
            /\ UNCHANGED <<proc, timers, uncaught>>
       ELSE sendRequest(c, [NoCall EXCEPT !.op = "transcribe"])
    /\ UNCHANGED <<pythonProcess, isInitialized>>
    /\ UNCHANGED <<onnxVars, recVars, remoteVars, pureVars>>

\* the continuation that runs when the sendRequest promise of c settles
AfterResponse(rec, kind, r) ==
    IF rec.op = "initialize" THEN initializeAfterPing(rec, kind, r)
    ELSE transcribeAfterResponse(rec, kind, r)

Pending(c) == call[c].pc = "awaitResponse"

\* ------------------------------------------- stdout 'data' (134-145)
\* The backend answers the oldest unanswered request line with one chunk of
\* output; Node emits it as one 'data' event on that process's stdout.  Every
\* once-listener registered there is removed and called with the same chunk.
\* onData dereferences this.pythonProcess in its try block and again in its
\* catch block (137, 140): with the handle cleared the TypeError leaves the
\* first listener, emit stops, and the later listeners stay registered.
DataEvent(p, kind) ==
    /\ proc[p].status = "running"
    /\ proc[p].inbox # <<>>
    /\ LET r == Head(proc[p].inbox)
           L == proc[p].listeners
       IN  IF L = <<>>
           THEN /\ proc' = [proc EXCEPT ![p].inbox = Tail(@)]
                /\ UNCHANGED <<call, isInitialized, uncaught>>
           ELSE IF pythonProcess = NULL
           THEN /\ proc' = [proc EXCEPT ![p].inbox = Tail(@),
                                        ![p].listeners = Tail(@)]
                /\ uncaught' = TRUE
                /\ UNCHANGED <<call, isInitialized>>
           ELSE /\ proc' = [proc EXCEPT ![p].inbox = Tail(@),
                                        ![p].listeners = <<>>]
                /\ call' = [c \in Calls |->
                              IF InSeq(L, c) /\ Pending(c)
                              THEN AfterResponse(call[c], kind, r)
                              ELSE call[c]]
                /\ isInitialized' =
                     IF \E c \in Calls : /\ InSeq(L, c) /\ Pending(c)
                                         /\ call[c].op = "initialize"
                     THEN HasPong(kind, r)
                     ELSE isInitialized
                /\ UNCHANGED uncaught
    /\ UNCHANGED <<pythonProcess, timers>>
    /\ UNCHANGED <<onnxVars, recVars, remoteVars, pureVars>>

\* ------------------------------------------- request timer (151-154)
\* The timer is never cleared: it fires for settled requests too.  Timers all
\* run 30 s, so they fire in the order they were set.
TimerFires ==
    /\ timers # <<>>
    /\ LET t == Head(timers)
       IN  IF pythonProcess = NULL
           THEN \* line 152 throws TypeError before reject is reached
                /\ uncaught' = TRUE
                /\ UNCHANGED <<call, proc, isInitialized>>
           ELSE /\ proc' = [proc EXCEPT ![pythonProcess].listeners = Without(@, t)]
                /\ IF Pending(t)
                   THEN /\ call' = [call EXCEPT ![t] = AfterResponse(@, "timeout", t)]
                        /\ isInitialized' = IF call[t].op = "initialize"
                                            THEN FALSE ELSE isInitialized
                   ELSE UNCHANGED <<call, isInitialized>>
                /\ UNCHANGED uncaught
    /\ timers' = Tail(timers)
    /\ UNCHANGED pythonProcess
    /\ UNCHANGED <<onnxVars, recVars, remoteVars, pureVars>>

\* ------------------------------------------- child process events (99-107)
\* The backend process ends on its own (crash, exit).
ProcExits(p) ==
    /\ proc[p].status = "running"
    /\ proc' = [proc EXCEPT ![p].status = "exited", ![p].inbox = <<>>]
    /\ UNCHANGED <<pythonProcess, isInitialized, call, timers, uncaught>>
    /\ UNCHANGED <<onnxVars, recVars, remoteVars, pureVars>>

\* ChildProcess.kill(signal) on process p: delivered only to a live process;
\* sets .killed when delivered.  `dies` says whether the signal ends it.
kill(procs, p, dies) ==
    IF procs[p].status = "running"
    THEN [procs EXCEPT ![p].killed = TRUE,
                       ![p].status = IF dies THEN "exited" ELSE @,
                       ![p].inbox = IF dies THEN <<>> ELSE @]
    ELSE procs

\* line 561: if (this.pythonProcess && !this.pythonProcess.killed)
forceKillNeeded(handle) == handle # NULL /\ ~proc[handle].killed

\* lines 560-568: cleanup() after its wait, seeing the process handle `handle`
cleanupFinish(handle) ==
    /\ proc' = IF forceKillNeeded(handle) THEN kill(proc, handle, TRUE) ELSE proc
    /\ pythonProcess' = NULL
    /\ isInitialized' = FALSE

\* lines 104-107 and 554-557: 'close' of process p.  The listener added by
\* startPythonService clears the handle whatever process it now refers to;
\* then every cleanup() waiting on p resumes.
CloseEvent(p) ==
    /\ proc[p].status = "exited"
    /\ LET waiters == {c \in Calls : call[c].pc = "cleanupWait" /\ call[c].wait = p}
       IN  /\ call' = [c \in Calls |-> IF c \in waiters
                                       THEN [call[c] EXCEPT !.pc = "resolved"]
                                       ELSE call[c]]
           /\ isInitialized' = IF waiters # {} THEN FALSE ELSE isInitialized
    /\ proc' = [proc EXCEPT ![p].status = "closed", ![p].listeners = <<>>]
    /\ pythonProcess' = NULL
    /\ UNCHANGED <<timers, uncaught>>
    /\ UNCHANGED <<onnxVars, recVars, remoteVars, pureVars>>

\* ------------------------------------------------------- cleanup (545-573)
\* lines 546-558: cleanup() up to its wait; `dies` is whether the backend ends
\* on SIGTERM
Cleanup(c, dies) ==
    /\ NextCall(c)
    /\ IF pythonProcess # NULL
       THEN /\ proc' = kill(proc, pythonProcess, dies)
            /\ call' = [call EXCEPT ![c] = [NoCall EXCEPT !.op = "cleanup",
                                                          !.pc = "cleanupWait",
                                                          !.wait = pythonProcess]]
            /\ UNCHANGED <<pythonProcess, isInitialized>>
       ELSE /\ call' = [call EXCEPT ![c] = [NoCall EXCEPT !.op = "cleanup",
                                                          !.pc = "resolved"]]
            /\ isInitialized' = FALSE
            /\ UNCHANGED <<pythonProcess, proc>>
    /\ UNCHANGED <<timers, uncaught>>
    /\ UNCHANGED <<onnxVars, recVars, remoteVars, pureVars>>

\* line 553: the 3 s grace window is over before 'close' arrived
CleanupTimeout(c) ==
    /\ call[c].pc = "cleanupWait"
    /\ cleanupFinish(pythonProcess)
    /\ call' = [call EXCEPT ![c].pc = "resolved"]
    /\ UNCHANGED <<timers, uncaught>>
    /\ UNCHANGED <<onnxVars, recVars, remoteVars, pureVars>>

Next ==
    \/ \E c \in Calls : Initialize(c)
    \/ \E c \in Calls, avail \in SUBSET (1..Len(pythonCommands)) : ProbeFails(c, avail)
    \/ \E c \in Calls, p \in Procs, started \in BOOLEAN :
          \E avail \in SUBSET (1..Len(pythonCommands)) : ProbeSucceeds(c, p, avail, started)
    \/ \E c \in Calls : GraceElapsed(c)
    \/ \E c \in Calls : Transcribe(c)
    \/ \E p \in Procs, kind \in Outputs : DataEvent(p, kind)
    \/ TimerFires
    \/ \E p \in Procs : ProcExits(p)
    \/ \E p \in Procs : CloseEvent(p)
    \/ \E c \in Calls, dies \in BOOLEAN : Cleanup(c, dies)
    \/ \E c \in Calls : CleanupTimeout(c)

Spec == Init /\ [][Next]_vars

\* ======================================================================
\* ONNX-Runtime engine (src/app/stt/whisper-engine.js) and the main-process
\* callers of the engine (src/app/main/main-simple.js)
\* ======================================================================
\* What ensureModelExists (96-112) meets on disk: a model file, no model file
\* (a mock is written and 'MOCK_MODEL' returned), or a file-system error.
Models == {"file", "mock", "fsError"}

\* The audio argument: all-zero samples, audible samples, or more samples
\* than Math.max(...array) accepts as arguments (RangeError, line 212).
Audios == {"zero", "sound", "oversize"}

\* const mockTranscriptions (main-simple.js 198-202): all non-empty
FallbackText == "filler"

\* processAudioCatch without the fallback: the error leaves the handler
processAudioRethrow(rec, e) ==
    [rec EXCEPT !.pc = "rejected", !.err = e]

\* main-simple.js 194-214: the catch block of the processAudio handler
processAudioCatch(rec, e) ==
    [rec EXCEPT !.pc = "resolved", !.text = FallbackText, !.err = e]

\* Throw with every caller wrapped in the handler's catch: no error reaches
\* the caller of the engine
ThrowSwallowed(rec, e) == processAudioCatch(rec, e)

\* an error thrown inside call rec: the handler catches it, a direct engine
\* call rejects with it
Throw(rec, e) ==
    IF rec.op = "processAudio" THEN processAudioCatch(rec, e)
    ELSE [rec EXCEPT !.pc = "rejected", !.err = e]

\* whisper-engine.js 197-238: whether preprocessAudio throws
preprocessAudioThrows(audio) == audio = "oversize"

\* whisper-engine.js 158-172: transcribe() up to the await in runInference
onnxTranscribeStart(rec, initialized) ==
    IF ~initialized THEN Throw(rec, "NotInitialized")
    ELSE IF preprocessAudioThrows(rec.audio) THEN Throw(rec, "RangeError")
    ELSE [rec EXCEPT !.pc = "inferring"]

\* whisper-engine.js 29-40: initialize() up to the await of
\* InferenceSession.create; ensureModelExists and getExecutionProviders do no
\* asynchronous work.
onnxInitializeStart(c, rec) ==
    IF rec.model = "fsError"
    THEN /\ call' = [call EXCEPT ![c] = Throw(rec, "FsError")]
         /\ isInitialized' = FALSE
         /\ UNCHANGED modelPath
    ELSE /\ call' = [call EXCEPT ![c] = [rec EXCEPT !.pc = "creating"]]
         /\ modelPath' = IF rec.model = "file" THEN "path" ELSE "MOCK_MODEL"
         /\ UNCHANGED isInitialized

OnnxInitialize(c, model) ==
    /\ NextCall(c)
    /\ onnxInitializeStart(c, [NoCall EXCEPT !.op = "initialize", !.model = model])
    /\ UNCHANGED <<session, sess>>
    /\ UNCHANGED <<pyVars, remoteVars, pureVars, recVars>>

\* whisper-engine.js 40-62: InferenceSession.create settled (executionMode,
\* which only labels results, is left out).  'MOCK_MODEL' is
\* no model file, so only a real file can load.  A handler call goes on to
\* transcribe (main-simple.js 188).
OnnxCreateDone(c, s, ok) ==
    /\ call[c].pc = "creating"
    /\ ok => call[c].model = "file"
    /\ IF ok
       THEN /\ sess[s] = "none"
            /\ \A x \in Sessions : x < s => sess[x] # "none"
            /\ session' = s
            /\ sess' = [sess EXCEPT ![s] = "live"]
            /\ isInitialized' = TRUE
            /\ call' = [call EXCEPT ![c] =
                          IF @.op = "processAudio"
                          THEN onnxTranscribeStart([@ EXCEPT !.made = s], TRUE)
                          ELSE [@ EXCEPT !.pc = "resolved", !.made = s]]
       ELSE /\ isInitialized' = FALSE
            /\ call' = [call EXCEPT ![c] = Throw(@, "CreateFailed")]
            /\ UNCHANGED <<session, sess>>
    /\ UNCHANGED modelPath
    /\ UNCHANGED <<pyVars, remoteVars, pureVars, recVars>>

OnnxTranscribe(c, audio) ==
    /\ NextCall(c)
    /\ call' = [call EXCEPT ![c] =
                  onnxTranscribeStart([NoCall EXCEPT !.op = "transcribe",
                                                     !.audio = audio],
                                      isInitialized)]
    /\ UNCHANGED <<isInitialized, onnxVars, recVars, pyVars, remoteVars, pureVars>>

\* whisper-engine.js 270-280: the text runInference selects
selectedText(audio) == IF audio = "zero" THEN "empty" ELSE "transcription"

\* whisper-engine.js 174-186 and 251-287: the simulated inference is over
OnnxInferenceDone(c) ==
    /\ call[c].pc = "inferring"
    /\ call' = [call EXCEPT ![c].pc = "resolved",
                            ![c].text = selectedText(call[c].audio)]
    /\ UNCHANGED <<isInitialized, onnxVars, recVars, pyVars, remoteVars, pureVars>>

\* main-simple.js 177-188: the processAudio handler up to its first pending
\* await; the renderer always passes an array (App.tsx 148-151)
ProcessAudio(c, audio, model) ==
    /\ NextCall(c)
    /\ LET rec == [NoCall EXCEPT !.op = "processAudio", !.audio = audio]
       IN  IF ~isInitialized
           THEN onnxInitializeStart(c, [rec EXCEPT !.model = model])
           ELSE /\ call' = [call EXCEPT ![c] = onnxTranscribeStart(rec, isInitialized)]
                /\ UNCHANGED <<isInitialized, modelPath>>
    /\ UNCHANGED <<session, sess>>
    /\ UNCHANGED <<pyVars, remoteVars, pureVars, recVars>>

\* whisper-engine.js 313-316 and main-simple.js 66-73: cleanup() up to the
\* await of session.release()
OnnxCleanup(c) ==
    /\ NextCall(c)
    /\ IF session # NULL
       THEN /\ call' = [call EXCEPT ![c] = [NoCall EXCEPT !.op = "cleanup",
                                                          !.pc = "releasing",
                                                          !.wait = session]]
            /\ UNCHANGED isInitialized
       ELSE /\ call' = [call EXCEPT ![c] = [NoCall EXCEPT !.op = "cleanup",
                                                          !.pc = "resolved"]]
            /\ isInitialized' = FALSE
    /\ UNCHANGED <<onnxVars, recVars, pyVars, remoteVars, pureVars>>

\* whisper-engine.js 316-323: session.release() settled; when it rejects the
\* catch block only logs
OnnxReleaseDone(c, ok) ==
    /\ call[c].pc = "releasing"
    /\ IF ok
       THEN /\ sess' = [sess EXCEPT ![call[c].wait] = "released"]
            /\ session' = NULL
            /\ isInitialized' = FALSE
       ELSE UNCHANGED <<sess, session, isInitialized>>
    /\ call' = [call EXCEPT ![c].pc = "resolved",
                            ![c].err = IF ok THEN "none" ELSE "ReleaseFailed"]
    /\ UNCHANGED <<modelPath, pyVars, remoteVars, pureVars, recVars>>

NextOnnx ==
    \/ \E c \in Calls, model \in Models : OnnxInitialize(c, model)
    \/ \E c \in Calls, s \in Sessions, ok \in BOOLEAN : OnnxCreateDone(c, s, ok)
    \/ \E c \in Calls, audio \in Audios : OnnxTranscribe(c, audio)
    \/ \E c \in Calls : OnnxInferenceDone(c)
    \/ \E c \in Calls, audio \in Audios, model \in Models : ProcessAudio(c, audio, model)
    \/ \E c \in Calls : OnnxCleanup(c)
    \/ \E c \in Calls, ok \in BOOLEAN : OnnxReleaseDone(c, ok)

SpecOnnx == Init /\ [][NextOnnx]_vars

\* ======================================================================
\* Remote engine (src/mvp-echo-light/app/stt/whisper-remote.js): language
\* normalization, lines 163-200
\* ======================================================================
\* A string is the tuple of its characters; "" is the empty tuple, which is
\* falsy like null and undefined.
lowerCase ==
    <<"a", "b", "c", "d", "e", "f", "g", "h", "i", "j", "k", "l", "m",
      "n", "o", "p", "q", "r", "s", "t", "u", "v", "w", "x", "y", "z">>
upperCase ==
    <<"A", "B", "C", "D", "E", "F", "G", "H", "I", "J", "K", "L", "M",
      "N", "O", "P", "Q", "R", "S", "T", "U", "V", "W", "X", "Y", "Z">>

\* String.prototype.toLowerCase / toUpperCase on one character
toLowerCaseChar(ch) ==
    IF \E i \in 1..Len(upperCase) : upperCase[i] = ch
    THEN lowerCase[CHOOSE i \in 1..Len(upperCase) : upperCase[i] = ch]
    ELSE ch

toUpperCaseChar(ch) ==
    IF \E i \in 1..Len(lowerCase) : lowerCase[i] = ch
    THEN upperCase[CHOOSE i \in 1..Len(lowerCase) : lowerCase[i] = ch]
    ELSE ch

toLowerCase(str) == [i \in 1..Len(str) |-> toLowerCaseChar(str[i])]

\* lines 171-194: const languageMap = { 'english': 'en', ... }
languageMap ==
    << <<<<"e", "n", "g", "l", "i", "s", "h">>, <<"e", "n">>>>,
       <<<<"s", "p", "a", "n", "i", "s", "h">>, <<"e", "s">>>>,
       <<<<"f", "r", "e", "n", "c", "h">>, <<"f", "r">>>>,
       <<<<"g", "e", "r", "m", "a", "n">>, <<"d", "e">>>>,
       <<<<"c", "h", "i", "n", "e", "s", "e">>, <<"z", "h">>>>,
       <<<<"j", "a", "p", "a", "n", "e", "s", "e">>, <<"j", "a">>>>,
       <<<<"i", "t", "a", "l", "i", "a", "n">>, <<"i", "t">>>>,
       <<<<"p", "o", "r", "t", "u", "g", "u", "e", "s", "e">>, <<"p", "t">>>>,
       <<<<"r", "u", "s", "s", "i", "a", "n">>, <<"r", "u">>>>,
       <<<<"k", "o", "r", "e", "a", "n">>, <<"k", "o">>>>,
       <<<<"d", "u", "t", "c", "h">>, <<"n", "l">>>>,
       <<<<"p", "o", "l", "i", "s", "h">>, <<"p", "l">>>>,
       <<<<"a", "r", "a", "b", "i", "c">>, <<"a", "r">>>>,
       <<<<"h", "i", "n", "d", "i">>, <<"h", "i">>>>,
       <<<<"t", "u", "r", "k", "i", "s", "h">>, <<"t", "r">>>>,
       <<<<"v", "i", "e", "t", "n", "a", "m", "e", "s", "e">>, <<"v", "i">>>>,
       <<<<"t", "h", "a", "i">>, <<"t", "h">>>>,
       <<<<"i", "n", "d", "o", "n", "e", "s", "i", "a", "n">>, <<"i", "d">>>>,
       <<<<"s", "w", "e", "d", "i", "s", "h">>, <<"s", "v">>>>,
       <<<<"d", "a", "n", "i", "s", "h">>, <<"d", "a">>>>,
       <<<<"n", "o", "r", "w", "e", "g", "i", "a", "n">>, <<"n", "o">>>>,
       <<<<"f", "i", "n", "n", "i", "s", "h">>, <<"f", "i">>>> >>

LanguageNames == {languageMap[i][1] : i \in 1..Len(languageMap)}
LanguageCodes == {languageMap[i][2] : i \in 1..Len(languageMap)}

\* languageMap[key]; undefined is the empty tuple
languageMapGet(key) ==
    IF \E i \in 1..Len(languageMap) : languageMap[i][1] = key
    THEN languageMap[CHOOSE i \in 1..Len(languageMap) : languageMap[i][1] = key][2]
    ELSE <<>>

\* normalizeLanguage with the lookup made on the string as received
normalizeLanguageExact(detectedLanguage) ==
    IF languageMapGet(detectedLanguage) # <<>>
    THEN languageMapGet(detectedLanguage)
    ELSE detectedLanguage

\* lines 197-200: the language is replaced by the table's code when its
\* lower-cased form is a key of the table, and is left as received otherwise
normalizeLanguage(detectedLanguage) ==
    LET langLower == toLowerCase(detectedLanguage)
    IN  IF languageMapGet(langLower) # <<>>
        THEN languageMapGet(langLower)
        ELSE detectedLanguage

\* every letter-casing of the word w
Casings(w) ==
    {[i \in 1..Len(w) |-> IF i \in U THEN toUpperCaseChar(w[i]) ELSE w[i]] :
        U \in SUBSET (1..Len(w))}

IsCasingOf(x, w) ==
    /\ Len(x) = Len(w)
    /\ \A i \in 1..Len(w) : x[i] = w[i] \/ x[i] = toUpperCaseChar(w[i])

\* language strings a server may send that the table does not know
OtherLanguages ==
    {<<"c", "a", "t", "a", "l", "a", "n">>, <<"e", "n", "-", "u", "s">>}

LangInputs ==
    UNION {Casings(w) : w \in LanguageNames \cup LanguageCodes \cup OtherLanguages}

InitLang ==
    /\ Idle
    /\ call = [c \in Calls |-> NoCall]
    /\ arg \in LangInputs
    /\ ret = <<>>

\* the normalizer applied to the language of a response
Normalize ==
    /\ ret = <<>>
    /\ ret' = <<normalizeLanguage(arg)>>
    /\ UNCHANGED <<arg, isInitialized, call, pyVars, onnxVars, recVars, remoteVars>>

\* the normalizer applied to its own result
Renormalize ==
    /\ ret # <<>>
    /\ arg # ret[1]
    /\ arg' = ret[1]
    /\ ret' = <<normalizeLanguage(ret[1])>>
    /\ UNCHANGED <<isInitialized, call, pyVars, onnxVars, recVars, remoteVars>>

NextLang == Normalize \/ Renormalize

SpecLang == InitLang /\ [][NextLang]_vars

\* ======================================================================
\* Remote engine: configuration and transcribe
\* ======================================================================
\* a remote-engine invocation not yet made
\* url      : the endpoint a request of this call was sent to
\* success  : the success field of the health result configure returned
\* saved    : whether saveConfig ran in this call, and whether its write worked
\* detected : the language string found in the response, before normalization
\* language : the language field of the result transcribe returned
\* before   : <<the engine's fields when configure was called>>
NoRemoteCall ==
    [op |-> "none", pc |-> "idle", err |-> "none", url |-> "null",
     success |-> FALSE, saved |-> "none", detected |-> <<>>, language |-> <<>>,
     before |-> <<>>]

\* values that JavaScript treats as false in `x || y` and `if (x)`
Falsy(x) == x \in {"undefined", "null", ""}

Urls == {"", "urlA", "urlB"}
ApiKeys == {"null", "key"}
ModelNames == {"null", "small"}
ConfigLanguages == {"null", "es"}

\* lines 42-47: the object saveConfig writes
Persisted(r) ==
    [endpointUrl |-> r.endpointUrl, apiKey |-> r.apiKey,
     selectedModel |-> r.selectedModel, language |-> r.language]

\* lines 40-53: saveConfig; a failed write is caught and logged
saveConfig(r, writable) == IF writable THEN <<Persisted(r)>> ELSE disk

InitRemote ==
    /\ Idle
    /\ call = [c \in Calls |-> NoRemoteCall]
    /\ arg = "none"
    /\ ret = <<>>

\* lines 55-61 and 70-79: configure() up to the pending health request; with
\* no endpoint testConnection returns its failure without any request
Configure(c, endpointUrl, apiKey, model) ==
    /\ NextCall(c)
    /\ remote' = [remote EXCEPT !.endpointUrl = endpointUrl,
                                !.apiKey = apiKey,
                                !.selectedModel = IF Falsy(model) THEN @ ELSE model]
    /\ call' = [call EXCEPT ![c] =
                  IF Falsy(endpointUrl)
                  THEN [NoRemoteCall EXCEPT !.op = "configure", !.pc = "resolved",
                                            !.before = <<remote>>]
                  ELSE [NoRemoteCall EXCEPT !.op = "configure", !.pc = "health",
                                            !.url = endpointUrl,
                                            !.before = <<remote>>]]
    /\ UNCHANGED <<disk, isInitialized, pyVars, onnxVars, recVars, pureVars>>

\* lines 79-105 and 62-67: the health request (and the model list request,
\* which changes nothing) settled; configure finishes
HealthDone(c, healthy, writable) ==
    /\ call[c].pc = "health"
    /\ IF healthy
       THEN /\ remote' = [remote EXCEPT !.isConfigured = TRUE]
            /\ disk' = saveConfig(remote', writable)
            /\ call' = [call EXCEPT ![c].pc = "resolved", ![c].success = TRUE,
                                    ![c].saved = IF writable THEN "ok" ELSE "failed"]
       ELSE /\ call' = [call EXCEPT ![c].pc = "resolved"]
            /\ UNCHANGED <<remote, disk>>
    /\ UNCHANGED <<isInitialized, pyVars, onnxVars, recVars, pureVars>>

\* lines 226-229
SetModel(c, model, writable) ==
    /\ NextCall(c)
    /\ remote' = [remote EXCEPT !.selectedModel = model]
    /\ disk' = saveConfig(remote', writable)
    /\ call' = [call EXCEPT ![c] =
                  [NoRemoteCall EXCEPT !.op = "setModel", !.pc = "resolved",
                                       !.saved = IF writable THEN "ok" ELSE "failed"]]
    /\ UNCHANGED <<isInitialized, pyVars, onnxVars, recVars, pureVars>>

\* lines 231-234
SetLanguage(c, language, writable) ==
    /\ NextCall(c)
    /\ remote' = [remote EXCEPT !.language = language]
    /\ disk' = saveConfig(remote', writable)
    /\ call' = [call EXCEPT ![c] =
                  [NoRemoteCall EXCEPT !.op = "setLanguage", !.pc = "resolved",
                                       !.saved = IF writable THEN "ok" ELSE "failed"]]
    /\ UNCHANGED <<isInitialized, pyVars, onnxVars, recVars, pureVars>>

\* lines 108-150: transcribe() up to the pending POST; `readable` is whether
\* readFileSync could read the audio file
RemoteTranscribe(c, readable) ==
    /\ NextCall(c)
    /\ call' = [call EXCEPT ![c] =
                  IF ~remote.isConfigured
                  THEN [NoRemoteCall EXCEPT !.op = "transcribe", !.pc = "rejected",
                                            !.err = "NotConfigured"]
                  ELSE IF ~readable
                  THEN [NoRemoteCall EXCEPT !.op = "transcribe", !.pc = "rejected",
                                            !.err = "CloudTranscriptionFailed"]
                  ELSE [NoRemoteCall EXCEPT !.op = "transcribe", !.pc = "fetching",
                                            !.url = remote.endpointUrl]]
    /\ UNCHANGED <<remoteVars, isInitialized, pyVars, onnxVars, recVars, pureVars>>

\* lines 163-168: the fields a server may carry the language in, in the order
\* of the || chain (the last one is segments[0].language)
languageFields == <<"language", "detected_language", "lang", "detected_lang", "segments">>

es == <<"e", "s">>

\* what one of these fields can hold: nothing, a code, a code in capitals, a
\* capitalized name, a name the table does not have
FieldValues ==
    {<<>>, es, <<"E", "S">>, <<"S", "p", "a", "n", "i", "s", "h">>,
     <<"c", "a", "t", "a", "l", "a", "n">>}

\* a response body: one value per field of languageFields, at most two of
\* them present
RemoteResponses ==
    {r \in [1..Len(languageFields) -> FieldValues] :
        Cardinality({i \in 1..Len(languageFields) : r[i] # <<>>}) <= 2}

\* a response body without any language
NoLanguage == [i \in 1..Len(languageFields) |-> <<>>]

\* lines 163-168: the first non-empty field, or 'en'
detectedLanguage(result) ==
    IF \E i \in 1..Len(languageFields) : result[i] # <<>>
    THEN result[CHOOSE i \in 1..Len(languageFields) :
                   /\ result[i] # <<>>
                   /\ \A j \in 1..Len(languageFields) : result[j] # <<>> => i <= j]
    ELSE <<"e", "n">>

FetchOutcomes == {"ok", "networkError", "httpError", "badJson"}

\* lines 146-214: the POST settled
FetchDone(c, outcome, result) ==
    /\ call[c].pc = "fetching"
    /\ call' = [call EXCEPT ![c] =
                  IF outcome = "ok"
                  THEN [@ EXCEPT !.pc = "resolved",
                                 !.detected = detectedLanguage(result),
                                 !.language = normalizeLanguage(detectedLanguage(result))]
                  ELSE [@ EXCEPT !.pc = "rejected", !.err = "CloudTranscriptionFailed"]]
    /\ UNCHANGED <<remoteVars, isInitialized, pyVars, onnxVars, recVars, pureVars>>

NextRemote ==
    \/ \E c \in Calls, u \in Urls, k \in ApiKeys, m \in ModelNames : Configure(c, u, k, m)
    \/ \E c \in Calls, healthy \in BOOLEAN, writable \in BOOLEAN :
          HealthDone(c, healthy, writable)
    \/ \E c \in Calls, m \in ModelNames \ {"null"}, writable \in BOOLEAN :
          SetModel(c, m, writable)
    \/ \E c \in Calls, l \in ConfigLanguages, writable \in BOOLEAN :
          SetLanguage(c, l, writable)
    \/ \E c \in Calls, readable \in BOOLEAN : RemoteTranscribe(c, readable)
    \/ \E c \in Calls, result \in RemoteResponses : FetchDone(c, "ok", result)
    \/ \E c \in Calls, outcome \in FetchOutcomes \ {"ok"} :
          FetchDone(c, outcome, NoLanguage)

SpecRemote == InitRemote /\ [][NextRemote]_vars

\* ======================================================================
\* ONNX engine: preprocessAudio (197-238) and runInference (243-296) as
\* functions of the audio
\* ======================================================================
\* An audio buffer is a sequence of runs [v, len]: len consecutive samples of
\* amplitude v, in thousandths of full scale.  The amplitudes are chosen so
\* that every quotient v / maxVal is again a whole number of thousandths.
Amplitudes == {0, 1, 4, 500, 1000}
RunLengths == {1, 8000, 16000, 480000, 520000}
MaxRuns == 2

AudioRuns == [v : Amplitudes, len : RunLengths]
AudioInputs == UNION {[1..k -> AudioRuns] : k \in 0..MaxRuns}

\* line 221: Math.min(480000, Math.max(16000, floatArray.length))
MinWindow == 16000
MaxWindow == 480000

\* Math.max(...array) passes every element as an argument; V8 keeps arguments
\* on the stack, which at its default size holds about this many.  A longer
\* spread throws RangeError unless the build runs with a larger stack.
MaxSpreadArgs == 125000

Min(a, b) == IF a < b THEN a ELSE b
Max(a, b) == IF a > b THEN a ELSE b

RECURSIVE length(_)
\* floatArray.length
length(runs) == IF runs = <<>> THEN 0 ELSE Head(runs).len + length(Tail(runs))

RECURSIVE maxAbs(_)
\* line 212: Math.max(...Array.from(floatArray).map(Math.abs)); the maximum
\* of no arguments is -Infinity, which is not > 0 either
maxAbs(runs) == IF runs = <<>> THEN 0 ELSE Max(Head(runs).v, maxAbs(Tail(runs)))

\* lines 213-217: floatArray[i] /= maxVal
normalized(runs) ==
    LET maxVal == maxAbs(runs)
    IN  IF maxVal > 0
        THEN [i \in 1..Len(runs) |-> [v |-> (runs[i].v * 1000) \div maxVal,
                                      len |-> runs[i].len]]
        ELSE runs

RECURSIVE subarray(_, _)
\* floatArray.subarray(0, n)
subarray(runs, n) ==
    IF n = 0 \/ runs = <<>> THEN <<>>
    ELSE IF Head(runs).len >= n THEN <<[v |-> Head(runs).v, len |-> n]>>
    ELSE <<Head(runs)>> \o subarray(Tail(runs), n - Head(runs).len)

\* lines 221-229: copy into a zero-filled Float32Array(targetLength)
padOrTrim(runs) ==
    LET targetLength == Min(MaxWindow, Max(MinWindow, length(runs)))
    IN  IF length(runs) >= targetLength
        THEN subarray(runs, targetLength)
        ELSE runs \o <<[v |-> 0, len |-> targetLength - length(runs)]>>

\* lines 197-238: preprocessAudio; stackOverflow is whether a spread call of
\* lines 212 or 231 ran out of stack
preprocessAudio(audioData, stackOverflow) ==
    IF stackOverflow THEN [thrown |-> TRUE, samples |-> <<>>, text |-> "none"]
    ELSE [thrown |-> FALSE, samples |-> padOrTrim(normalized(audioData)),
          text |-> "none"]

\* the sum of the squares of the samples, exactly, as <<thousands, units>>
\* (amplitudes in thousandths)
RECURSIVE sumOfSquares(_)
sumOfSquares(runs) ==
    IF runs = <<>> THEN <<0, 0>>
    ELSE LET sq == Head(runs).v * Head(runs).v
             low == (Head(runs).len % 1000) * sq
             rest == sumOfSquares(Tail(runs))
             units == (low % 1000) + rest[2]
         IN  <<(Head(runs).len \div 1000) * sq + (low \div 1000) + rest[1]
                  + (units \div 1000),
               units % 1000>>

\* lines 293-296 and 274: calculateAudioEnergy(audioData) < 0.01, that is
\* sum / length < 0.0001; an empty buffer gives NaN, which is not below
energyBelowSilence(runs) ==
    LET sum == sumOfSquares(runs)
        bound == 100 * length(runs)
    IN  /\ runs # <<>>
        /\ \/ sum[1] < bound \div 1000
           \/ sum[1] = bound \div 1000 /\ sum[2] < bound % 1000

\* lines 270-280: "" for low energy, else one of the eight sentences
inferredText(processedAudio) ==
    IF energyBelowSilence(processedAudio) THEN "empty" ELSE "transcription"

InitAudio ==
    /\ Idle
    /\ call = [c \in Calls |-> NoCall]
    /\ arg \in AudioInputs
    /\ ret = <<>>

\* transcribe, line 168: preprocessAudio(audioData)
PreprocessAudio(stackOverflow) ==
    /\ ret = <<>>
    /\ stackOverflow => length(arg) > MaxSpreadArgs
    /\ ret' = <<preprocessAudio(arg, stackOverflow)>>
    /\ UNCHANGED <<arg, isInitialized, call, pyVars, onnxVars, recVars, remoteVars>>

\* transcribe, line 172: runInference(processedAudio)
RunInference ==
    /\ ret # <<>>
    /\ ~ret[1].thrown
    /\ ret[1].text = "none"
    /\ ret' = <<[ret[1] EXCEPT !.text = inferredText(ret[1].samples)]>>
    /\ UNCHANGED <<arg, isInitialized, call, pyVars, onnxVars, recVars, remoteVars>>

NextAudio ==
    \/ \E stackOverflow \in BOOLEAN : PreprocessAudio(stackOverflow)
    \/ RunInference

SpecAudio == InitAudio /\ [][NextAudio]_vars

\* ======================================================================
\* Python-sidecar engine: what transcribe makes of the response (383-404)
\* ======================================================================
\* The parsed response object, field by field; "undefined" is a missing field
ResponseErrors == {"undefined", "", "model not loaded"}
ResponseTexts == {"undefined", "", "hello world", "hola"}
ResponseLanguages == {"undefined", "en", "es"}
ResponseProbabilities == {"undefined", "0.87"}

PythonResponses ==
    [error : ResponseErrors, text : ResponseTexts, language : ResponseLanguages,
     language_probability : ResponseProbabilities]

Truthy(x) == ~Falsy(x)

\* transcribeResult without the check of result.error
transcribeResultUnchecked(result) ==
    [thrown |-> FALSE, success |-> TRUE, text |-> result.text,
     language |-> result.language,
     confidence |-> IF Truthy(result.language_probability)
                    THEN result.language_probability ELSE "0.95",
     error |-> "undefined"]

\* lines 383-404: throw on result.error, else build the result object (which
\* has no error property)
transcribeResult(result) ==
    IF Truthy(result.error)
    THEN [thrown |-> TRUE, success |-> FALSE, text |-> "undefined",
          language |-> "undefined", confidence |-> "undefined",
          error |-> "Python Whisper error"]
    ELSE [thrown |-> FALSE, success |-> TRUE, text |-> result.text,
          language |-> result.language,
          confidence |-> IF Truthy(result.language_probability)
                         THEN result.language_probability ELSE "0.95",
          error |-> "undefined"]

InitResult ==
    /\ Idle
    /\ call = [c \in Calls |-> NoCall]
    /\ arg \in PythonResponses
    /\ ret = <<>>

\* the continuation of `await this.sendRequest(request)` for the response arg
TranscribeResult ==
    /\ ret = <<>>
    /\ ret' = <<transcribeResult(arg)>>
    /\ UNCHANGED <<arg, isInitialized, call, pyVars, onnxVars, recVars, remoteVars>>

NextResult == TranscribeResult

SpecResult == InitResult /\ [][NextResult]_vars

\* ======================================================================
\* The processAudio handler (src/app/main/main-simple.js 177-215) in front of
\* the Python-sidecar engine: requests handled one after another, the backend
\* process exiting between them
\* ======================================================================
\* how a request line is answered: the backend's output, or no output in 30 s
Answers == Outputs \cup {"timeout"}

\* part_002 46-49: the error initialize() rethrows when its ping settled as
\* `ping` without pong: true
pingError(ping) ==
    CASE ping = "garbage" -> "InvalidJSON"
      [] ping = "timeout" -> "Timeout"
      [] OTHER            -> "PingFailed"

\* main-simple.js 177-215 for request c, from the call to the returned result,
\* with no other call in progress: initialize() when getStatus().initialized
\* is false (probe, spawn, grace second, ping), then transcribe(); any error
\* is turned into the fallback result.  `avail` are the candidate commands
\* whose probe passes, `started` whether the spawn works, `ping` and `answer`
\* how the ping and the transcribe request are answered.  The request timers
\* of answered requests stay armed.
HandleProcessAudio(c, avail, started, ping, answer) ==
    /\ NextCall(c)
    /\ LET rec == [NoCall EXCEPT !.op = "processAudio"]
           free == {q \in Procs : proc[q].status = "unspawned"}
           p == CHOOSE q \in free : \A x \in free : q <= x
           \* part_002 57 and 87: startPythonService spawns
           starts == /\ ~isInitialized /\ pythonProcess = NULL
                     /\ FirstUsable(avail) # 0
           handle == IF starts THEN (IF started THEN p ELSE NULL)
                     ELSE pythonProcess
           procs == IF starts
                    THEN [proc EXCEPT ![p].status =
                              IF started THEN "running" ELSE "exited"]
                    ELSE proc
           alive == handle # NULL /\ procs[handle].status = "running"
           initErr == IF isInitialized THEN "none"
                      ELSE IF pythonProcess = NULL /\ FirstUsable(avail) = 0
                      THEN "PythonNotFound"
                      ELSE IF handle = NULL THEN "StartFailed"
                      ELSE IF ping = "ok" THEN "none"
                      ELSE pingError(ping)
           pinged == ~isInitialized /\ handle # NULL
           sent == initErr = "none" /\ handle # NULL
           t == transcribeAfterResponse([rec EXCEPT !.sent = handle], answer, c)
       IN  /\ starts => free # {}
           /\ (pinged /\ ~alive) => ping = "timeout"
           /\ (sent /\ ~alive) => answer = "timeout"
           /\ pythonProcess' = handle
           /\ proc' = procs
           /\ isInitialized' = (initErr = "none")
           /\ uncaught' = (uncaught \/ ((pinged \/ sent) /\ ~alive))
           /\ timers' = timers
                        \o (IF pinged /\ ping # "timeout" THEN <<c>> ELSE <<>>)
                        \o (IF sent /\ answer # "timeout" THEN <<c>> ELSE <<>>)
           /\ call' = [call EXCEPT ![c] =
                         IF initErr # "none" THEN processAudioCatch(rec, initErr)
                         ELSE IF sendRequestThrows'
                         THEN processAudioCatch(rec, "NotRunning")
                         ELSE IF t.pc = "rejected"
                         THEN processAudioCatch(t, t.err)
                         ELSE t]
    /\ UNCHANGED <<onnxVars, recVars, remoteVars, pureVars>>

NextKeepAlive ==
    \/ \E c \in Calls, avail \in SUBSET (1..Len(pythonCommands)), started \in BOOLEAN :
          \E ping \in Answers, answer \in Answers :
              HandleProcessAudio(c, avail, started, ping, answer)
    \/ \E p \in Procs : ProcExits(p)
    \/ \E p \in Procs : CloseEvent(p)
    \/ TimerFires

SpecKeepAlive == Init /\ [][NextKeepAlive]_vars

\* ======================================================================
\* Python-sidecar engine: the response handler of sendRequest (part_002
\* 134-145) as a function of the chunks in which stdout delivers the
\* backend's output
\* ======================================================================
\* The backend writes one JSON object per line.  A line is the tuple of its
\* characters, the object's content standing as one character.
MaxLines == 2
Payloads == {"a", "b"}

Line(k) == <<"{", k, "}", "\n">>

RECURSIVE Flatten(_)
Flatten(chunks) ==
    IF chunks = <<>> THEN <<>> ELSE Head(chunks) \o Flatten(Tail(chunks))

\* the backend output: the response line, then the lines written after it
RECURSIVE LinesOf(_)
LinesOf(n) ==
    IF n = 0 THEN {<<>>}
    ELSE {Line(k) \o rest : k \in Payloads, rest \in LinesOf(n - 1)}

Streams == UNION {LinesOf(n) : n \in 1..MaxLines}

\* the stream cut into 'data' chunks after the positions in `cuts`
RECURSIVE SplitAt(_, _)
SplitAt(stream, cuts) ==
    IF cuts = {} THEN <<stream>>
    ELSE LET m == CHOOSE i \in cuts : \A j \in cuts : i <= j
         IN  <<SubSeq(stream, 1, m)>>
             \o SplitAt(SubSeq(stream, m + 1, Len(stream)),
                        {i - m : i \in cuts \ {m}})

ChunkedOutputs ==
    UNION {{SplitAt(stream, cuts) : cuts \in SUBSET (1..(Len(stream) - 1))} :
             stream \in Streams}

\* String.prototype.trim: leading and trailing white space removed
RECURSIVE trim(_)
trim(text) ==
    IF text = <<>> THEN text
    ELSE IF Head(text) = "\n" THEN trim(Tail(text))
    ELSE IF text[Len(text)] = "\n" THEN trim(SubSeq(text, 1, Len(text) - 1))
    ELSE text

\* JSON.parse: the object's content when the text is one complete object,
\* "SyntaxError" when it is not
JSONparse(text) ==
    IF Len(text) = 3 /\ text[1] = "{" /\ text[2] \in Payloads /\ text[3] = "}"
    THEN text[2]
    ELSE "SyntaxError"

\* lines 134-143: onData(data), called with the first chunk that arrives
\* after the listener was registered
onData(data) ==
    LET response == JSONparse(trim(data))
    IN  IF response # "SyntaxError"
        THEN [settled |-> "resolved", response |-> response]
        ELSE [settled |-> "rejected", response |-> "InvalidJSON"]

InitFraming ==
    /\ Idle
    /\ call = [c \in Calls |-> NoCall]
    /\ arg \in ChunkedOutputs
    /\ ret = <<>>

\* line 145: stdout.once('data', onData) fires on the first chunk
OnData ==
    /\ ret = <<>>
    /\ ret' = <<onData(Head(arg))>>
    /\ UNCHANGED <<arg, isInitialized, call, pyVars, onnxVars, recVars, remoteVars>>

NextFraming == OnData

SpecFraming == InitFraming /\ [][NextFraming]_vars

\* ======================================================================
\* Python-sidecar engine: the probe loop of startPythonService (part_002
\* 65-96), one candidate at a time
\* ======================================================================
\* How `<cmd> --version` ends: 'close' with code 0, 'close' with another code,
\* 'close' after a signal (code null), or 'error' (no such command).
ProbeOutcomes == {"exit0", "exit1", "signal", "error"}

\* the probe resolves on any 'close', whatever the exit code
versionCheckPassesOnClose(outcome) == outcome # "error"

\* lines 73-77: if (code === 0) resolve(); else reject(); on('error', reject)
versionCheckPasses(outcome) == outcome = "exit0"

\* arg.outcomes[i] : how the probe of pythonCommands[i] would end
\* arg.probed      : the commands probed so far, in the order probed
\* arg.pythonCmd   : let pythonCmd = null (line 67)
InitProbe ==
    /\ Idle
    /\ call = [c \in Calls |-> NoCall]
    /\ arg \in [outcomes : [1..Len(pythonCommands) -> ProbeOutcomes],
                probed : {<<>>}, pythonCmd : {"null"}]
    /\ ret = <<>>

\* lines 69-85: one iteration of `for (const cmd of pythonCommands)`
ProbeCandidate ==
    /\ ret = <<>>
    /\ arg.pythonCmd = "null"
    /\ Len(arg.probed) < Len(pythonCommands)
    /\ LET i == Len(arg.probed) + 1
           cmd == pythonCommands[i]
       IN  arg' = [arg EXCEPT !.probed = Append(@, cmd),
                              !.pythonCmd = IF versionCheckPasses(arg.outcomes[i])
                                            THEN cmd ELSE "null"]
    /\ UNCHANGED <<ret, isInitialized, call, pyVars, onnxVars, recVars, remoteVars>>

\* lines 87-89: the loop ended with pythonCmd still null
ProbeExhausted ==
    /\ ret = <<>>
    /\ arg.pythonCmd = "null"
    /\ Len(arg.probed) = Len(pythonCommands)
    /\ ret' = <<[thrown |-> "PythonNotFound", spawned |-> "none"]>>
    /\ UNCHANGED <<arg, isInitialized, call, pyVars, onnxVars, recVars, remoteVars>>

\* lines 91-96: this.pythonProcess = spawn(pythonCmd, [pythonScript], ...)
LaunchService ==
    /\ ret = <<>>
    /\ arg.pythonCmd # "null"
    /\ pythonProcess' = 1
    /\ proc' = [proc EXCEPT ![1].status = "running"]
    /\ ret' = <<[thrown |-> "none", spawned |-> arg.pythonCmd]>>
    /\ UNCHANGED <<arg, isInitialized, call, timers, uncaught, onnxVars, recVars, remoteVars>>

NextProbe ==
    \/ ProbeCandidate
    \/ ProbeExhausted
    \/ LaunchService

SpecProbe == InitProbe /\ [][NextProbe]_vars

\* ======================================================================
\* Python-sidecar engine: the transcribe request (part_002 356-379) as a
\* function of the caller's audio
\* ======================================================================
\* Array.from(audioData): a plain array of the same elements in order
ArrayFrom(audioData) == [i \in 1..Len(audioData) |-> audioData[i]]

\* lines 361-377: the request transcribe() builds; stackOverflow is whether
\* the spread of line 366 ran out of stack, in which case nothing is sent
transcribeRequest(audioData, stackOverflow) ==
    IF stackOverflow THEN [thrown |-> TRUE, audio_data |-> <<>>]
    ELSE [thrown |-> FALSE, audio_data |-> ArrayFrom(audioData)]

\* transcribe(audioData) up to line 379, where the request is handed to
\* sendRequest
BuildRequest(stackOverflow) ==
    /\ ret = <<>>
    /\ stackOverflow => length(arg) > MaxSpreadArgs
    /\ ret' = <<transcribeRequest(arg, stackOverflow)>>
    /\ UNCHANGED <<arg, isInitialized, call, pyVars, onnxVars, recVars, remoteVars>>

NextRequest == \E stackOverflow \in BOOLEAN : BuildRequest(stackOverflow)

SpecRequest == InitAudio /\ [][NextRequest]_vars

\* ======================================================================
\* ONNX engine: preprocessAudio (whisper-engine.js 197-238) and the buffer
\* the caller passed in
\* ======================================================================
\* lines 201-208: a Float32Array is used as it is, everything else is copied
\* into a new Float32Array
AudioKinds == {"Float32Array", "Array", "ArrayLike"}

aliasesInput(kind) == kind = "Float32Array"

\* arg.kind   : the type of the caller's audioData
\* arg.given  : its samples when transcribe was called
\* arg.buffer : its samples now
InitBuffer ==
    /\ Idle
    /\ call = [c \in Calls |-> NoCall]
    /\ arg \in [kind : AudioKinds, given : AudioInputs, buffer : AudioInputs]
    /\ arg.buffer = arg.given
    /\ ret = <<>>

\* lines 197-238 on the caller's buffer: the loop of lines 213-217 writes to
\* floatArray, which is the caller's buffer when that is a Float32Array; a
\* spread that runs out of stack does so on line 212, before the loop
PreprocessBuffer(stackOverflow) ==
    /\ ret = <<>>
    /\ stackOverflow => length(arg.given) > MaxSpreadArgs
    /\ ret' = <<preprocessAudio(arg.given, stackOverflow)>>
    /\ arg' = [arg EXCEPT !.buffer =
                  IF aliasesInput(arg.kind) /\ ~stackOverflow
                  THEN normalized(arg.given) ELSE @]
    /\ UNCHANGED <<isInitialized, call, pyVars, onnxVars, recVars, remoteVars>>

NextBuffer == \E stackOverflow \in BOOLEAN : PreprocessBuffer(stackOverflow)

SpecBuffer == InitBuffer /\ [][NextBuffer]_vars

\* ======================================================================
\* Remote engine: one transcribe or testConnection call (whisper-remote.js
\* 70-215) as a function of the engine's fields, the options and what the
\* file system and the network do
\* ======================================================================
\* every combination of fields that configure, setModel and setLanguage can
\* leave in the engine
RemoteConfigs ==
    [endpointUrl : Urls \cup {"null"}, apiKey : ApiKeys \cup {""},
     selectedModel : {"base", "small"}, language : ConfigLanguages \cup {""},
     isConfigured : BOOLEAN]

\* the options argument of transcribe
TranscribeOptions == [model : {"undefined", "tiny"}, language : {"undefined", "", "fr"}]
NoOptions == [model |-> "undefined", language |-> "undefined"]

\* an Error object: its class and its message, the message as the tuple of
\* the parts it is put together from
\* line 110
notConfiguredError ==
    [name |-> "Error",
     message |-> <<"Cloud endpoint not configured. Please configure in Settings.">>]

\* what fails below the engine: readFileSync (117), fetch (146), the
\* response status (152-153), response.json() (156)
transportError(fault) ==
    CASE fault = "unreadable"   -> [name |-> "SystemError", message |-> <<"ENOENT">>]
      [] fault = "networkError" -> [name |-> "FetchError", message |-> <<"ECONNREFUSED">>]
      [] fault = "httpError"    -> [name |-> "Error", message |-> <<"HTTP 500: ", "Internal Server Error">>]
      [] OTHER                  -> [name |-> "FetchError", message |-> <<"invalid json response body">>]

\* the catch block rethrows the error it caught
rethrown(cause) == cause

\* lines 211-214: throw new Error(`Cloud transcription failed: ${error.message}`)
cloudTranscriptionFailed(cause) ==
    [name |-> "Error", message |-> <<"Cloud transcription failed: ">> \o cause.message]

\* the request with the Authorization header always attached
postRequestAlwaysAuthorized(r, options) ==
    [method |-> "POST", url |-> r.endpointUrl, file |-> "recording.webm",
     model |-> IF Falsy(options.model) THEN r.selectedModel ELSE options.model,
     response_format |-> "verbose_json",
     language |-> IF ~Falsy(options.language) THEN <<options.language>>
                  ELSE IF ~Falsy(r.language) THEN <<r.language>> ELSE <<>>,
     authorization |-> <<<<"Bearer ", r.apiKey>>>>]

\* lines 119-150: the multipart POST transcribe sends; a field or header that
\* is left out is the empty tuple
postRequest(r, options) ==
    [method |-> "POST", url |-> r.endpointUrl, file |-> "recording.webm",
     model |-> IF Falsy(options.model) THEN r.selectedModel ELSE options.model,
     response_format |-> "verbose_json",
     language |-> IF ~Falsy(options.language) THEN <<options.language>>
                  ELSE IF ~Falsy(r.language) THEN <<r.language>> ELSE <<>>,
     authorization |-> IF Falsy(r.apiKey) THEN <<>>
                       ELSE <<<<"Bearer ", r.apiKey>>>>]

\* line 117: fs.readFileSync(audioFilePath)
readFile == [method |-> "readFileSync"]

\* lines 76-79 and 84: the two GET requests of testConnection
getRequest(r, path) == [method |-> "GET", url |-> <<r.endpointUrl, path>>]

\* the outcome of the call under check
\* pc     : "fetching" / "health" while a request is pending, else how the
\*          promise settled
\* err    : <<the error it rejected with>>
\* result : <<the value it resolved with>>
\* io     : the file reads and requests it made, in order
NoOutcome == [pc |-> "idle", err |-> <<>>, result |-> <<>>, io |-> <<>>]

\* arg.op       : the method called
\* arg.options  : the options passed to transcribe
\* arg.readable : whether the audio file can be read
\* arg.config   : the engine's fields when the method was called
InitPost ==
    /\ IdleLocal
    /\ disk = <<>>
    /\ remote \in RemoteConfigs
    /\ call = [c \in Calls |-> NoRemoteCall]
    /\ \/ \E options \in TranscribeOptions, readable \in BOOLEAN :
             arg = [op |-> "transcribe", options |-> options,
                    readable |-> readable, config |-> remote]
       \/ arg = [op |-> "testConnection", options |-> NoOptions,
                 readable |-> TRUE, config |-> remote]
    /\ ret = <<>>

\* lines 108-150: transcribe() up to the pending POST
PostTranscribe ==
    /\ ret = <<>>
    /\ arg.op = "transcribe"
    /\ ret' = IF ~remote.isConfigured
              THEN <<[NoOutcome EXCEPT !.pc = "rejected",
                                       !.err = <<notConfiguredError>>]>>
              ELSE IF ~arg.readable
              THEN <<[NoOutcome EXCEPT
                        !.pc = "rejected", !.io = <<readFile>>,
                        !.err = <<cloudTranscriptionFailed(transportError("unreadable"))>>]>>
              ELSE <<[NoOutcome EXCEPT
                        !.pc = "fetching",
                        !.io = <<readFile, postRequest(remote, arg.options)>>]>>
    /\ UNCHANGED <<arg, remoteVars, isInitialized, call, pyVars, onnxVars, recVars>>

\* lines 146-214: the POST settled
PostSettles(outcome) ==
    /\ ret # <<>>
    /\ ret[1].pc = "fetching"
    /\ ret' = IF outcome = "ok"
              THEN <<[ret[1] EXCEPT !.pc = "resolved", !.result = <<"transcript">>]>>
              ELSE <<[ret[1] EXCEPT
                        !.pc = "rejected",
                        !.err = <<cloudTranscriptionFailed(transportError(outcome))>>]>>
    /\ UNCHANGED <<arg, remoteVars, isInitialized, call, pyVars, onnxVars, recVars>>

\* lines 70-79: testConnection() up to the pending health request
TestConnection ==
    /\ ret = <<>>
    /\ arg.op = "testConnection"
    /\ ret' = IF Falsy(remote.endpointUrl)
              THEN <<[NoOutcome EXCEPT
                        !.pc = "resolved",
                        !.result = <<[success |-> FALSE,
                                      error |-> <<"No endpoint configured">>]>>]>>
              ELSE <<[NoOutcome EXCEPT !.pc = "health",
                                       !.io = <<getRequest(remote, "/health")>>]>>
    /\ UNCHANGED <<arg, remoteVars, isInitialized, call, pyVars, onnxVars, recVars>>

HealthOutcomes == {"ok", "notOk", "networkError"}

\* lines 79-105: the health request settled; after an ok answer the model
\* list is requested, and whether that works changes only the list
HealthSettles(outcome, modelsListed) ==
    /\ ret # <<>>
    /\ ret[1].pc = "health"
    /\ modelsListed => outcome = "ok"
    /\ ret' = <<[ret[1] EXCEPT
                   !.pc = "resolved",
                   !.io = IF outcome = "ok"
                          THEN Append(@, getRequest(remote, "/v1/models")) ELSE @,
                   !.result =
                      CASE outcome = "ok" ->
                             <<[success |-> TRUE,
                                error |-> IF modelsListed THEN <<"models">> ELSE <<>>]>>
                        [] outcome = "notOk" ->
                             <<[success |-> FALSE, error |-> <<"Health check failed">>]>>
                        [] OTHER ->
                             <<[success |-> FALSE,
                                error |-> transportError("networkError").message]>>]>>
    /\ UNCHANGED <<arg, remoteVars, isInitialized, call, pyVars, onnxVars, recVars>>

NextPost ==
    \/ PostTranscribe
    \/ \E outcome \in FetchOutcomes : PostSettles(outcome)
    \/ TestConnection
    \/ \E outcome \in HealthOutcomes, modelsListed \in BOOLEAN :
          HealthSettles(outcome, modelsListed)

SpecPost == InitPost /\ [][NextPost]_vars

\* ======================================================================
\* Remote engine: saveConfig in one engine, then the constructor and
\* loadConfig of the next (whisper-remote.js 12-53)
\* ======================================================================
\* the fields configure, setModel and setLanguage can leave in the engine,
\* setModel('') included
SavedConfigs ==
    [endpointUrl : Urls \cup {"null"}, apiKey : ApiKeys \cup {""},
     selectedModel : {"base", "small", ""}, language : ConfigLanguages \cup {""},
     isConfigured : BOOLEAN]

\* loadConfig taking every field of the file as it is
loadConfigVerbatim(file) ==
    IF file = <<>> THEN RemoteDefaults
    ELSE [endpointUrl |-> file[1].endpointUrl, apiKey |-> file[1].apiKey,
          selectedModel |-> file[1].selectedModel, language |-> file[1].language,
          isConfigured |-> ~Falsy(file[1].endpointUrl)]

\* lines 12-38: a new engine: the constructor's fields, then loadConfig on
\* the file (the empty tuple when there is none).  JSON.stringify and
\* JSON.parse keep strings and null as they are.
loadConfig(file) ==
    IF file = <<>> THEN RemoteDefaults
    ELSE LET endpointUrl == IF Falsy(file[1].endpointUrl) THEN "null"
                            ELSE file[1].endpointUrl
         IN  [endpointUrl |-> endpointUrl,
              apiKey |-> IF Falsy(file[1].apiKey) THEN "null" ELSE file[1].apiKey,
              selectedModel |-> IF Falsy(file[1].selectedModel)
                                THEN RemoteDefaults.selectedModel
                                ELSE file[1].selectedModel,
              language |-> IF Falsy(file[1].language) THEN "null"
                           ELSE file[1].language,
              isConfigured |-> ~Falsy(endpointUrl)]

\* arg : the fields of the engine that saves
\* ret : the steps taken so far
InitConfig ==
    /\ IdleLocal
    /\ disk = <<>>
    /\ remote \in SavedConfigs
    /\ call = [c \in Calls |-> NoRemoteCall]
    /\ arg = remote
    /\ ret = <<>>

\* lines 40-53
SaveConfig(writable) ==
    /\ ret = <<>>
    /\ disk' = saveConfig(remote, writable)
    /\ ret' = <<"saveConfig">>
    /\ UNCHANGED <<arg, remote, isInitialized, call, pyVars, onnxVars, recVars>>

\* lines 12-22: the application starts again
NewEngine ==
    /\ ret = <<"saveConfig">>
    /\ remote' = loadConfig(disk)
    /\ ret' = <<"saveConfig", "loadConfig">>
    /\ UNCHANGED <<arg, disk, isInitialized, call, pyVars, onnxVars, recVars>>

NextConfig ==
    \/ \E writable \in BOOLEAN : SaveConfig(writable)
    \/ NewEngine

SpecConfig == InitConfig /\ [][NextConfig]_vars

\* ======================================================================
\* Recording start and stop: the renderer's handlers and AudioCapture
\* (main-simple.js 328-453 and 502-657) and the main process's
\* start-recording and stop-recording handlers (main-simple.js 126-167)
\* ======================================================================
Sources == {"button", "global-shortcut"}

\* call[c] of this specification is the c-th start or stop the user asks for
\*   pc      "capturing" : awaiting getUserMedia (343-345)
\*           "stopping"  : awaiting the recorder's stop event (408-416)
\*           "invoking"  : awaiting the reply of the main process
\*           "replied"   : the reply has arrived, the continuation has not run
\*           "hung"      : awaiting a promise that nothing resolves
\*           "done", "failed", "abandoned" (the page was unloaded)
\*   onstop  : the recorder this call stopped will fire its stop event and
\*             then run the handler this call installed
\*   reply   : what the main process's handler did with the invocation
NoAttempt ==
    [op |-> "none", source |-> "none", pc |-> "idle", onstop |-> FALSE,
     reply |-> "none"]

\* lines 412-451: AudioCapture.cleanup()
audioCleanup(r) ==
    [r EXCEPT !.stream = FALSE, !.mediaRecorder = "undefined",
              !.openStreams = IF r.stream THEN @ - 1 ELSE @]

InitRec ==
    /\ IdleLocal
    /\ remote = RemoteDefaults
    /\ disk = <<>>
    /\ call = [c \in Calls |-> NoAttempt]
    /\ arg = "none"
    /\ ret = <<>>

\* lines 502-511 (the button, which shows Start while isRecording is false,
\* 764-775) and 640-648 (the global shortcut): the handler up to the await of
\* getUserMedia in AudioCapture.startRecording
HandleStartRecording(c, source) ==
    /\ NextCall(c)
    /\ ~renderer.isRecording
    /\ renderer' = [renderer EXCEPT !.isRecording = TRUE]
    /\ call' = [call EXCEPT ![c] = [NoAttempt EXCEPT !.op = "start",
                                                     !.source = source,
                                                     !.pc = "capturing"]]
    /\ UNCHANGED <<isRecording, ipc>>
    /\ UNCHANGED <<isInitialized, pyVars, onnxVars, remoteVars, pureVars>>

\* lines 345-366: getUserMedia settled.  Granted, the stream and a recorder
\* replace the ones in the fields and start-recording is invoked (513, 650);
\* refused, the catch block clears isRecording (514-518, 651-656).
GetUserMediaDone(c, granted) ==
    /\ call[c].pc = "capturing"
    /\ IF granted
       THEN /\ renderer' = [renderer EXCEPT !.stream = TRUE,
                                            !.mediaRecorder = "recording",
                                            !.openStreams = @ + 1]
            /\ ipc' = Append(ipc, c)
            /\ call' = [call EXCEPT ![c].pc = "invoking"]
       ELSE /\ renderer' = [renderer EXCEPT !.isRecording = FALSE]
            /\ call' = [call EXCEPT ![c].pc = "failed"]
            /\ UNCHANGED ipc
    /\ UNCHANGED isRecording
    /\ UNCHANGED <<isInitialized, pyVars, onnxVars, remoteVars, pureVars>>

\* lines 528-532 and 618: the continuation of AudioCapture.stopRecording()
\* in call c: isRecording is cleared and stop-recording is invoked
afterStopRecording(c, r) ==
    /\ renderer' = [r EXCEPT !.isRecording = FALSE]
    /\ ipc' = Append(ipc, c)

\* lines 521-527 (button) and 609-617 (global shortcut) with
\* AudioCapture.stopRecording, 396-411: without a recorder it cleans up and
\* resolves at once; with a recording one it installs onstop and stops it;
\* stop() on a recorder that is already inactive throws, after onstop was
\* replaced, so the call whose handler was installed waits for ever and this
\* call takes its catch block (553-557, 635-638).
HandleStopRecording(c, source) ==
    /\ NextCall(c)
    /\ renderer.isRecording
    /\ LET rec == [NoAttempt EXCEPT !.op = "stop", !.source = source]
           r == IF source = "global-shortcut"
                THEN [renderer EXCEPT !.isRecording = FALSE]
                ELSE renderer
       IN  CASE renderer.mediaRecorder = "undefined" ->
                  /\ afterStopRecording(c, audioCleanup(r))
                  /\ call' = [call EXCEPT ![c] = [rec EXCEPT !.pc = "invoking"]]
             [] renderer.mediaRecorder = "recording" ->
                  /\ renderer' = [r EXCEPT !.mediaRecorder = "inactive"]
                  /\ call' = [call EXCEPT ![c] = [rec EXCEPT !.pc = "stopping",
                                                             !.onstop = TRUE]]
                  /\ UNCHANGED ipc
             [] OTHER ->
                  /\ renderer' = [r EXCEPT !.isRecording = FALSE]
                  /\ call' = [d \in Calls |->
                                IF d = c
                                THEN [rec EXCEPT !.pc = "failed",
                                                 !.onstop = TRUE]
                                ELSE IF call[d].onstop /\ call[d].pc = "stopping"
                                     THEN [call[d] EXCEPT !.pc = "hung",
                                                          !.onstop = FALSE]
                                     ELSE call[d]]
                  /\ UNCHANGED ipc
    /\ UNCHANGED isRecording
    /\ UNCHANGED <<isInitialized, pyVars, onnxVars, remoteVars, pureVars>>

\* lines 403-409: the stop event of the recorder that call c stopped: the
\* handler cleans up the AudioCapture as it is now and resolves the promise
\* of call c
MediaRecorderStopped(c) ==
    /\ call[c].onstop
    /\ IF call[c].pc = "stopping"
       THEN /\ afterStopRecording(c, audioCleanup(renderer))
            /\ call' = [call EXCEPT ![c].pc = "invoking", ![c].onstop = FALSE]
       ELSE /\ renderer' = audioCleanup(renderer)
            /\ call' = [call EXCEPT ![c].onstop = FALSE]
            /\ UNCHANGED ipc
    /\ UNCHANGED isRecording
    /\ UNCHANGED <<isInitialized, pyVars, onnxVars, remoteVars, pureVars>>

\* lines 126-139: ipcMain.handle('start-recording')
startRecording(flag) ==
    IF flag THEN [isRecording |-> flag, reply |-> "rejected"]
    ELSE [isRecording |-> TRUE, reply |-> "resolved"]

\* lines 142-167: ipcMain.handle('stop-recording')
stopRecording(flag) ==
    IF ~flag THEN [isRecording |-> flag, reply |-> "rejected"]
    ELSE [isRecording |-> FALSE, reply |-> "resolved"]

\* The main process handles the oldest invocation.  The global-shortcut
\* handler does not wait for the reply (618, 650); the button's does, unless
\* its page is gone.
MainHandles(c) ==
    /\ ipc # <<>>
    /\ c = Head(ipc)
    /\ ipc' = Tail(ipc)
    /\ LET out == IF call[c].op = "start" THEN startRecording(isRecording)
                  ELSE stopRecording(isRecording)
       IN  /\ isRecording' = out.isRecording
           /\ call' = [call EXCEPT ![c].reply = out.reply,
                         ![c].pc = IF @ # "invoking" THEN @
                                   ELSE IF call[c].source = "button" THEN "replied"
                                   ELSE IF out.reply = "resolved" THEN "done"
                                   ELSE "failed"]
    /\ UNCHANGED renderer
    /\ UNCHANGED <<isInitialized, pyVars, onnxVars, remoteVars, pureVars>>

\* lines 513-518 and 532-557: the button's handler after the reply: a
\* rejection takes the catch block, which clears isRecording
Replied(c) ==
    /\ call[c].pc = "replied"
    /\ IF call[c].reply = "rejected"
       THEN /\ renderer' = [renderer EXCEPT !.isRecording = FALSE]
            /\ call' = [call EXCEPT ![c].pc = "failed"]
       ELSE /\ call' = [call EXCEPT ![c].pc = "done"]
            /\ UNCHANGED renderer
    /\ UNCHANGED <<isRecording, ipc>>
    /\ UNCHANGED <<isInitialized, pyVars, onnxVars, remoteVars, pureVars>>

\* lines 463-482: the page is reloaded: beforeunload cleans up the
\* AudioCapture, the page's streams end with it, the handlers in progress
\* never continue, and App mounts again.  Invocations already sent are still
\* handled by the main process, whose flag is not touched.
Reload ==
    /\ \E c \in Calls : call[c].op # "none"
    /\ renderer' = Mounted
    /\ call' = [c \in Calls |->
                  IF call[c].pc \in {"capturing", "stopping", "invoking",
                                     "replied", "hung"}
                  THEN [call[c] EXCEPT !.pc = "abandoned", !.onstop = FALSE]
                  ELSE [call[c] EXCEPT !.onstop = FALSE]]
    /\ UNCHANGED <<isRecording, ipc>>
    /\ UNCHANGED <<isInitialized, pyVars, onnxVars, remoteVars, pureVars>>

NextRec ==
    \/ \E c \in Calls, source \in Sources : HandleStartRecording(c, source)
    \/ \E c \in Calls, granted \in BOOLEAN : GetUserMediaDone(c, granted)
    \/ \E c \in Calls, source \in Sources : HandleStopRecording(c, source)
    \/ \E c \in Calls : MediaRecorderStopped(c)
    \/ \E c \in Calls : MainHandles(c)
    \/ \E c \in Calls : Replied(c)
    \/ Reload

SpecRec == InitRec /\ [][NextRec]_vars

\* ======================================================================
\* Properties of the Python-sidecar engine (checked under Spec)
\* ======================================================================
InFlight == {c \in Calls : call[c].op = "transcribe" /\ Pending(c)}

\* the step registers the request of c with the backend (sendRequest ran)
Sends(c) == call[c].sent = 0 /\ call'[c].sent # 0

\* the step completes call c
Completes(c) == ~Settled(c) /\ call'[c].pc \in {"resolved", "rejected"}

\* C1 (as claimed): at most one transcription request is outstanding against
\* the backend at any time.
C1_AtMostOneInFlight == Cardinality(InFlight) <= 1

\* C2 (as claimed): a transcribe call that resolves does so with the backend
\* output produced for its own request.
C2_OwnResponse ==
    \A c \in Calls :
        (call[c].op = "transcribe" /\ call[c].pc = "resolved") => call[c].resp = c

\* C3 (as claimed): when the request of a transcribe call is sent, every
\* transcribe call made before it has completed.
C3_FifoSerialization ==
    [][\A c \in Calls :
          (Sends(c) /\ call'[c].op = "transcribe")
          => \A d \in Calls : (d < c /\ call[d].op = "transcribe") => Settled(d)]_vars

\* C6 (as claimed): once the 30 s timer of a submitted transcribe request has
\* fired, the request has settled (with its response, or with the timeout),
\* whatever happened to the backend process in the meantime.
C6_TimerSettles ==
    \A c \in Calls :
        (call[c].op = "transcribe" /\ call[c].sent # 0 /\ ~InSeq(timers, c))
        => Settled(c)

\* C7 (as claimed): the backend output for a transcribe request that timed
\* out is never delivered to a later transcribe call.
C7_StaleResponseDiscarded ==
    \A c \in Calls, d \in Calls :
        (/\ call[d].op = "transcribe" /\ call[d].got = "timeout"
         /\ call[c].op = "transcribe" /\ call[c].pc = "resolved" /\ d < c)
        => call[c].resp # d

\* C10 (as claimed): when cleanup() completes, the backend process it was
\* terminating is no longer running.
C10_CleanupTerminates ==
    [][\A c \in Calls :
          (call[c].op = "cleanup" /\ Completes(c) /\ call[c].wait # 0)
          => proc'[call[c].wait].status # "running"]_vars

\* a transcribe call whose sendRequest promise was settled by a backend failure
BackendFailed(c) ==
    call[c].op = "transcribe" /\ call[c].got \in {"error", "garbage", "timeout"}

C11_SingleStart ==
    [][\A p \in Procs :
          (proc[p].status = "unspawned" /\ proc'[p].status = "running")
          => (pythonProcess = NULL \/ proc[pythonProcess].status # "running")]_vars

\* the ping of initialize call c was answered with pong: true
Ponged(c) ==
    call[c].got = "ok" /\ call[c].resp # 0 /\ call[call[c].resp].op = "initialize"

C13_PingGatesReadiness ==
    [][/\ (isInitialized' /\ ~isInitialized)
          => \E c \in Calls : /\ call[c].op = "initialize" /\ Completes(c)
                              /\ call'[c].pc = "resolved" /\ Ponged(c)'
       /\ \A c \in Calls :
             (/\ call[c].op = "initialize" /\ Pending(c)
              /\ \/ call'[c].got # "none" /\ ~Ponged(c)'
                 \/ InSeq(timers, c) /\ ~InSeq(timers', c))
             => (call'[c].pc = "rejected" /\ ~isInitialized')]_vars

\* ======================================================================
\* Properties of the ONNX engine and the processAudio handler (SpecOnnx)
\* ======================================================================
\* C5: the processAudio handler never rejects; it resolves either with the
\* engine's result or, when initialize or transcribe failed, with the
\* non-empty filler text and the error's message in the error field.
C5_HandlerAlwaysWellFormed ==
    \A c \in Calls :
        call[c].op = "processAudio" =>
            /\ call[c].pc # "rejected"
            /\ call[c].pc = "resolved" =>
                  \/ call[c].err = "none" /\ call[c].text \in {"empty", "transcription"}
                  \/ call[c].err # "none" /\ call[c].text = FallbackText
            /\ call[c].model = "fsError" =>
                  /\ call[c].pc = "resolved" /\ call[c].err = "FsError"
                  /\ call[c].text = FallbackText
            /\ (call[c].model = "mock" /\ Settled(c)) =>
                  call[c].err = "CreateFailed" /\ call[c].text = FallbackText
            /\ (call[c].audio = "oversize" /\ Settled(c)) =>
                  /\ call[c].err \in {"FsError", "CreateFailed", "RangeError"}
                  /\ call[c].text = FallbackText

\* C5 witness: one handler call answered with the fallback because initialize
\* failed, another because transcribe failed
C5_Witness ==
    \E c \in Calls, d \in Calls :
        /\ call[c].op = "processAudio" /\ call[c].pc = "resolved"
        /\ call[c].err = "CreateFailed"
        /\ call[d].op = "processAudio" /\ call[d].pc = "resolved"
        /\ call[d].err = "RangeError"

\* the errors that only initialize raises (whisper-engine.js 33, 40)
InitErrors == {"FsError", "CreateFailed"}

InitKinds == {"initialize", "processAudio"}

\* No initialize is in effect: every call made so far has settled, and either
\* no initialize ever created a session, or a cleanup has completed that was
\* called after every initialize made so far had finished (the session it
\* released is at least as recent as any they created).
NoInitializeInEffect ==
    /\ \A e \in Calls : call[e].op # "none" => Settled(e)
    /\ \/ \A e \in Calls : call[e].made = 0
       \/ \E d \in Calls :
            /\ call[d].op = "cleanup"
            /\ \A e \in Calls :
                 call[e].op \in InitKinds => (e < d /\ call[e].made <= call[d].wait)

\* C8 (as claimed): a transcribe call made while no initialize is in effect
\* (never initialized, last initialize failed, or after cleanup) fails with
\* the not-initialized error.
C8_NotInitializedRejected ==
    [][\A c \in Calls :
          (NoInitializeInEffect /\ call[c].op = "none" /\ call'[c].op = "transcribe")
          => (call'[c].pc = "rejected" /\ call'[c].err = "NotInitialized")]_vars

\* C9 (as claimed): whenever a cleanup() call completes, the engine reports
\* initialized === false, also when releasing the session failed.
C9_CleanupLeavesUninitialized ==
    [][\A c \in Calls :
          (call'[c].op = "cleanup" /\ call'[c].pc = "resolved" /\ call[c].pc # "resolved")
          => ~isInitialized']_vars

\* ======================================================================
\* Properties of the language normalizer (checked under SpecLang)
\* ======================================================================
\* C15: every letter-casing of a language name of the table is normalized to
\* the table's code, a canonical code such as "es" is returned unchanged, and
\* normalizing a result again returns it unchanged.
C15_NormalizeIdempotent ==
    ret # <<>> =>
        /\ \A i \in 1..Len(languageMap) :
              IsCasingOf(arg, languageMap[i][1]) => ret[1] = languageMap[i][2]
        /\ arg \in LanguageCodes => ret[1] = arg
        /\ normalizeLanguage(ret[1]) = ret[1]

\* C15 witness: "SPANISH" was normalized, and the result is "es"
C15_Witness ==
    /\ arg = <<"S", "P", "A", "N", "I", "S", "H">>
    /\ ret = << <<"e", "s">> >>

\* ======================================================================
\* Properties of the remote engine (checked under SpecRemote)
\* ======================================================================
\* C16 (as claimed): the language of every result is a canonical two-letter
\* code of the table, whether the response carried a code or a full name, in
\* whatever casing and under whichever field, and "en" when it carried none.
C16_CanonicalLanguage ==
    \A c \in Calls :
        (/\ call[c].op = "transcribe" /\ call[c].pc = "resolved"
         /\ \E w \in LanguageNames \cup LanguageCodes : IsCasingOf(call[c].detected, w))
        => call[c].language \in LanguageCodes

ConfigOps == {"configure", "setModel", "setLanguage"}

\* C18 (as claimed): the configuration changes only inside configure,
\* setModel and setLanguage, and when one of these calls returns, the file
\* holds the configuration that is in memory (a write that failed aside).
C18_PersistedEqualsMemory ==
    [][/\ remote' # remote =>
             \E c \in Calls : call'[c].op \in ConfigOps /\ call'[c] # call[c]
       /\ \A c \in Calls :
             (Completes(c) /\ call'[c].op \in ConfigOps /\ call'[c].saved # "failed")
             => disk' = <<Persisted(remote')>>]_vars

\* ======================================================================
\* Properties of preprocessAudio and runInference (checked under SpecAudio)
\* ======================================================================
RECURSIVE canonical(_)
\* the same samples with empty runs dropped and equal neighbours merged
canonical(runs) ==
    IF runs = <<>> THEN <<>>
    ELSE LET rest == canonical(Tail(runs))
         IN  IF Head(runs).len = 0 THEN rest
             ELSE IF rest # <<>> /\ Head(rest).v = Head(runs).v
             THEN <<[v |-> Head(runs).v, len |-> Head(runs).len + Head(rest).len]>>
                     \o Tail(rest)
             ELSE <<Head(runs)>> \o rest

\* C17 (as claimed): for an input of n samples preprocessAudio returns
\* min(480000, max(16000, n)) samples: the first min(n, 480000) are the
\* normalized input samples in order and the rest are zero; 8,000 samples are
\* padded to 16,000 and 1,000,000 are truncated to 480,000.
C17_PaddedOrTruncated ==
    ret # <<>> =>
        LET n == length(arg)
            kept == Min(n, MaxWindow)
            target == Min(MaxWindow, Max(MinWindow, n))
        IN  /\ ~ret[1].thrown
            /\ length(ret[1].samples) = target
            /\ n = 8000 => length(ret[1].samples) = 16000
            /\ n = 1000000 => length(ret[1].samples) = 480000
            /\ canonical(ret[1].samples) =
                  canonical(subarray(normalized(arg), kept)
                               \o <<[v |-> 0, len |-> target - kept]>>)

\* C19 (as claimed): when transcribe returns a result for audio whose energy
\* is below 0.01, the text of the result is "".
C19_SilenceShortCircuit ==
    (ret # <<>> /\ ret[1].text # "none" /\ energyBelowSilence(arg))
    => ret[1].text = "empty"

\* ======================================================================
\* Properties of the transcribe result (checked under SpecResult)
\* ======================================================================
\* C20 (as claimed): a response without an error field is returned with its
\* text and language unchanged and no error set; a response with an error
\* field is never returned as a successful transcription.
C20_PassThrough ==
    ret # <<>> =>
        IF arg.error = "undefined"
        THEN /\ ~ret[1].thrown /\ ret[1].error = "undefined"
             /\ ret[1].text = arg.text /\ ret[1].language = arg.language
        ELSE ret[1].thrown /\ ~ret[1].success

\* C20 (amended): a response whose error field is missing or empty is
\* returned as a success with its text and language unchanged and no error
\* set; a response whose error field is a non-empty message makes transcribe
\* throw, and no result is returned.
C20_PassThroughUnlessError ==
    ret # <<>> =>
        IF arg.error \in {"undefined", ""}
        THEN /\ ~ret[1].thrown /\ ret[1].success /\ ret[1].error = "undefined"
             /\ ret[1].text = arg.text /\ ret[1].language = arg.language
        ELSE /\ ret[1].thrown /\ ~ret[1].success
             /\ ret[1].text = "undefined"

\* C20 witness: the response {text: "hello world", language: "en"} came back
\* as a result with that text and language
C20_Witness ==
    /\ ret # <<>>
    /\ arg.text = "hello world" /\ arg.language = "en" /\ arg.error = "undefined"
    /\ ret[1].success /\ ret[1].text = "hello world" /\ ret[1].language = "en"

\* ======================================================================
\* Python-sidecar engine: process handle, timers and malformed output
\* (checked under Spec)
\* ======================================================================
\* C22 (as claimed): whenever getStatus().initialized is true, sessionActive
\* is true as well: the engine holds the handle of a backend process that has
\* not exited.
C22_InitializedHasBackend ==
    isInitialized => (pythonProcess # NULL /\ proc[pythonProcess].status = "running")

\* C23 (as claimed): when an initialize call finishes after a cleanup that was
\* invoked while it was in progress, and with it every call made so far has
\* finished and none of them is an initialize made after that cleanup, no
\* backend process is running and the engine is not initialized.
C23_CleanupWinsRace ==
    [][\A c \in Calls, d \in Calls :
          (/\ call[c].op = "initialize" /\ Completes(c)
           /\ c < d /\ call[d].op = "cleanup"
           /\ \A e \in Calls :
                 /\ call'[e].op # "none" => call'[e].pc \in {"resolved", "rejected"}
                 /\ call'[e].op = "initialize" => e < d)
          => /\ ~isInitialized'
             /\ \A p \in Procs : proc'[p].status # "running"]_vars

\* the step runs the 30 s timer callback of request t
TimerOf(t) == timers # <<>> /\ Head(timers) = t /\ timers' = Tail(timers)

\* C24 (as claimed): the timer of a request that has already settled raises
\* no error and changes nothing: no call settles, no other request's listener
\* is removed, the engine's fields stay as they were, also when the process
\* handle has been cleared in the meantime.
C24_SettledTimerHarmless ==
    [][\A t \in Calls :
          (TimerOf(t) /\ Settled(t))
          => /\ uncaught' = uncaught
             /\ call' = call
             /\ isInitialized' = isInitialized
             /\ pythonProcess' = pythonProcess
             /\ \A p \in Procs :
                   /\ proc'[p].status = proc[p].status
                   /\ proc'[p].listeners = Without(proc[p].listeners, t)]_vars

\* C26 (as claimed): when the backend output delivered to the listener of a
\* pending transcribe request is not valid JSON, the request rejects with the
\* invalid-JSON error, its listener is no longer registered, nothing is
\* written to the backend again, and isInitialized (unless the same output
\* also fails a pending initialize) and the process handle are unchanged.
C26_MalformedResponseRejects ==
    [][\A p \in Procs, c \in Calls :
          (/\ DataEvent(p, "garbage")
           /\ InSeq(proc[p].listeners, c)
           /\ call[c].op = "transcribe" /\ Pending(c))
          => /\ call'[c].pc = "rejected"
             /\ call'[c].err = "InvalidJSON"
             /\ ~InSeq(proc'[p].listeners, c)
             /\ \A q \in Procs : Len(proc'[q].inbox) <= Len(proc[q].inbox)
             /\ \/ isInitialized' = isInitialized
                \/ \E e \in Calls : /\ InSeq(proc[p].listeners, e) /\ Pending(e)
                                     /\ call[e].op = "initialize"
             /\ pythonProcess' = pythonProcess]_vars

\* ======================================================================
\* Keeping the backend alive (checked under SpecKeepAlive)
\* ======================================================================
\* C21 (as claimed): the engine recovers from an unexpected exit of the
\* backend: a processAudio request that finds no backend running either starts
\* it again or, when it answers with the fallback for 'Python service not
\* running', leaves the engine in another state than it found it, so that the
\* requests after it are not all refused the same way.
C21_BackendRestarted ==
    [][\A c \in Calls :
          (/\ call[c].op = "none" /\ call'[c].op = "processAudio"
           /\ \A p \in Procs : proc[p].status # "running"
           /\ call'[c].err = "NotRunning")
          => (isInitialized' # isInitialized \/ pythonProcess' # pythonProcess)]_vars

\* ======================================================================
\* Line framing of the backend's output (checked under SpecFraming)
\* ======================================================================
\* C25 (as claimed): however stdout cuts the backend's output into chunks, the
\* request resolves with the object of the first complete line of output.
C25_WholeLines ==
    ret # <<>> => ret[1] = [settled |-> "resolved", response |-> Flatten(arg)[2]]

\* ======================================================================
\* Executable probing (checked under SpecProbe)
\* ======================================================================
\* the candidates whose version check exits with code 0
Usable == {i \in 1..Len(pythonCommands) : arg.outcomes[i] = "exit0"}

\* C27: the candidates are probed in the order python, python3, py and none
\* is probed after one has exited with code 0; the service is launched with
\* the first candidate that does; when none does, start fails with the
\* Python-not-found error, nothing is spawned and the handle stays empty.
C27_FirstUsableLaunched ==
    LET n == Len(arg.probed)
    IN  /\ arg.probed = SubSeq(pythonCommands, 1, n)
        /\ \A i \in Usable : n <= i
        /\ ret # <<>> =>
              IF Usable # {}
              THEN /\ ret[1].thrown = "none"
                   /\ n \in Usable
                   /\ ret[1].spawned = pythonCommands[n]
                   /\ pythonProcess # NULL
              ELSE /\ ret[1] = [thrown |-> "PythonNotFound", spawned |-> "none"]
                   /\ n = Len(pythonCommands)
                   /\ pythonProcess = NULL
                   /\ \A p \in Procs : proc[p].status = "unspawned"

\* C27 witness: python fails its check, python3 passes and is launched, and
\* py, which would pass too, has not been probed
C27_Witness ==
    /\ ret # <<>>
    /\ arg.outcomes = <<"exit1", "exit0", "exit0">>
    /\ ret[1].spawned = "python3"
    /\ arg.probed = <<"python", "python3">>

\* ======================================================================
\* Audio sent to the backend (checked under SpecRequest)
\* ======================================================================
\* C28 (as claimed): the audio_data of every transcribe request handed to the
\* transport has between 16,000 and 480,000 samples.
C28_RequestWindowed ==
    (ret # <<>> /\ ~ret[1].thrown)
    => /\ MinWindow <= length(ret[1].audio_data)
       /\ length(ret[1].audio_data) <= MaxWindow

\* ======================================================================
\* The caller's audio buffer (checked under SpecBuffer)
\* ======================================================================
\* C29 (as claimed): after preprocessAudio the caller's buffer holds the
\* samples it held before, whatever its type.
C29_InputUnchanged ==
    ret # <<>> => arg.buffer = arg.given

\* ======================================================================
\* Failed configure calls of the remote engine (checked under SpecRemote)
\* ======================================================================
\* C30 (as claimed): when a configure call returns a failed connection test
\* and no configure or setModel call was made after it, endpointUrl, apiKey
\* and selectedModel have the values they had when it was called, and so has
\* isConfigured unless another configure call succeeded.
C30_FailedConfigureKeepsConfig ==
    [][\A c \in Calls :
          (/\ Completes(c) /\ call'[c].op = "configure" /\ ~call'[c].success
           /\ \A d \in Calls :
                 d > c => call'[d].op \notin {"configure", "setModel"})
          => LET was == call'[c].before[1]
             IN  /\ remote'.endpointUrl = was.endpointUrl
                 /\ remote'.apiKey = was.apiKey
                 /\ remote'.selectedModel = was.selectedModel
                 /\ \/ remote'.isConfigured = was.isConfigured
                    \/ \E d \in Calls : /\ d # c /\ call'[d].op = "configure"
                                        /\ call'[d].success]_vars

\* ======================================================================
\* Configured and persisted endpoints of the remote engine (checked under
\* SpecRemote)
\* ======================================================================
\* C31 (as claimed): whenever isConfigured is true, endpointUrl is a
\* non-empty URL.
C31_ConfiguredHasEndpoint ==
    remote.isConfigured => ~Falsy(remote.endpointUrl)

\* the connection test of some configure call succeeded for the endpoint url
Validated(url) ==
    \E c \in Calls : /\ call[c].op = "configure" /\ call[c].success
                     /\ call[c].url = url

\* C32 (as claimed): an endpointUrl written to the configuration file is one
\* for which the connection test of a configure call succeeded.
C32_PersistedEndpointValidated ==
    (disk # <<>> /\ ~Falsy(disk[1].endpointUrl)) => Validated(disk[1].endpointUrl)

\* ======================================================================
\* Requests and failures of the remote engine (checked under SpecPost)
\* ======================================================================
\* the POST requests among the I/O of the call
Posts == SelectSeq(ret[1].io, LAMBDA e : e.method = "POST")

\* the call under check is a transcribe that has got as far as it can
Transcribed == ret # <<>> /\ arg.op = "transcribe"

C34_FailuresWrapped ==
    ret # <<>> =>
        /\ (arg.op = "transcribe" /\ ~arg.config.isConfigured)
              => /\ ret[1].pc = "rejected" /\ ret[1].io = <<>>
                 /\ ret[1].err = <<notConfiguredError>>
        /\ (arg.op = "transcribe" /\ arg.config.isConfigured
                                  /\ ret[1].pc = "rejected")
              => /\ ret[1].err[1].name = "Error"
                 /\ Head(ret[1].err[1].message) = "Cloud transcription failed: "
                 /\ \E fault \in {"unreadable"} \cup (FetchOutcomes \ {"ok"}) :
                       /\ Tail(ret[1].err[1].message) = transportError(fault).message
                       /\ fault = "unreadable" <=> ~arg.readable
                 /\ ret[1].result = <<>>
        /\ arg.op = "testConnection"
              => /\ ret[1].pc # "rejected" /\ ret[1].err = <<>>
                 /\ ret[1].pc = "resolved" =>
                       \/ ret[1].result[1].success
                       \/ ret[1].result[1].error # <<>>
                 /\ Falsy(arg.config.endpointUrl) => ret[1].io = <<>>

\* C34 witness: a configured transcribe has failed on a refused connection
C34_Witness ==
    /\ Transcribed /\ arg.config.isConfigured /\ ret[1].pc = "rejected"
    /\ ret[1].err[1].message = <<"Cloud transcription failed: ", "ECONNREFUSED">>

\* ======================================================================
\* Configuration round trip of the remote engine (checked under SpecConfig)
\* ======================================================================
\* the configuration was written and a new engine has loaded it
Reloaded == ret = <<"saveConfig", "loadConfig">> /\ disk # <<>>

\* C35 (as claimed): the new engine has the endpointUrl, apiKey,
\* selectedModel and language that were saved, and isConfigured exactly when
\* endpointUrl is set.
C35_RoundTrip ==
    Reloaded =>
        /\ remote.endpointUrl = arg.endpointUrl
        /\ remote.apiKey = arg.apiKey
        /\ remote.selectedModel = arg.selectedModel
        /\ remote.language = arg.language
        /\ remote.isConfigured <=> remote.endpointUrl \notin {"null", ""}

\* a field as it comes back: the saved value when it is a non-empty string,
\* else the value the constructor gives that field
Restored(saved, default) == IF saved \in {"null", ""} THEN default ELSE saved

\* C35 (amended): the new engine has every saved field that was a non-empty
\* string; a saved endpointUrl, apiKey or language that was null or empty is
\* null, a saved selectedModel that was empty is the default model;
\* isConfigured is true exactly when the saved endpointUrl was a non-empty
\* string, whatever isConfigured was in the engine that saved.
C35_RoundTripOfSetFields ==
    Reloaded =>
        /\ remote.endpointUrl = Restored(arg.endpointUrl, "null")
        /\ remote.apiKey = Restored(arg.apiKey, "null")
        /\ remote.selectedModel = Restored(arg.selectedModel, "base")
        /\ remote.language = Restored(arg.language, "null")
        /\ remote.isConfigured <=> arg.endpointUrl \notin {"null", ""}

\* C35 witness: an engine with an endpoint that never passed its test, a key
\* and an empty language was saved and loaded again
C35_Witness ==
    /\ Reloaded
    /\ arg.endpointUrl = "urlA" /\ ~arg.isConfigured /\ arg.apiKey = "key"
    /\ arg.language = "" /\ arg.selectedModel = "small"
    /\ remote.isConfigured /\ remote.language = "null"

\* ======================================================================
\* Sessions of the ONNX engine (checked under SpecOnnx)
\* ======================================================================
\* C36 (as claimed): when a cleanup() call completes whose release did not
\* fail, with no other call of the engine in progress, no session created by
\* initialize is left unreleased and getStatus().sessionActive is false.
C36_NoLeakedSession ==
    [][\A c \in Calls :
          (/\ call'[c].op = "cleanup"
           /\ call'[c].pc = "resolved" /\ call[c].pc # "resolved"
           /\ call'[c].err = "none"
           /\ \A d \in Calls :
                call'[d].op # "none" => call'[d].pc \in {"resolved", "rejected"})
          => (session' = NULL /\ \A s \in Sessions : sess'[s] # "live")]_vars

\* ======================================================================
\* Recording start and stop (checked under SpecRec)
\* ======================================================================
\* no start or stop is in progress in the renderer or on its way to the
\* main process
RendererIdle ==
    /\ ~renderer.isRecording
    /\ ipc = <<>>
    /\ \A c \in Calls :
         call[c].pc \in {"idle", "done", "failed", "abandoned"} /\ ~call[c].onstop

\* the main process handles invocation c in this step
Handled(c) == ipc # <<>> /\ Head(ipc) = c /\ ipc' = Tail(ipc)

\* C37 (as claimed): start-recording is rejected while the main process's
\* flag is set and stop-recording while it is clear; when a start attempt of
\* the renderer fails at the main-process step, the renderer holds no
\* microphone capture afterwards; and the main flag is never left set while
\* the renderer is idle, where no later start could succeed.
C37_StartStopAgreement ==
    /\ [][\A c \in Calls :
            /\ (Handled(c) /\ call[c].op = "start" /\ isRecording)
               => (call'[c].reply = "rejected" /\ isRecording')
            /\ (Handled(c) /\ call[c].op = "stop" /\ ~isRecording)
               => (call'[c].reply = "rejected" /\ ~isRecording')
            /\ (/\ call[c].op = "start" /\ call'[c].reply = "rejected"
                /\ call[c].pc # "failed" /\ call'[c].pc = "failed")
               => ~renderer'.stream]_vars
    /\ [](RendererIdle => ~isRecording)
====
